---- MODULE Spec2Model ----
(***************************************************************************)
(* Tempest VIP monitor: the poll cycle of index.js (checkAll, processUser) *)
(* with the snapshot cache of cache.js, the alerts of Slack.js, the        *)
(* metrics of metrics.js and the device decoder (processDevices).          *)
(***************************************************************************)
EXTENDS Integers, Sequences, FiniteSets, TLC

\* ------------------------------------------------------------------ bounds
\* number of checkAll runs (poll cycles) explored
MaxRuns == 3
\* raw sensor_status words range over 0..RawMax
RawMax == 3

\* ------------------------------------------------------- program constants
SENSOR_KEYS ==
  <<"air_temperature", "rh", "lightning", "wind", "precip", "light_uv", "pressure">>

\* the two kinds of account of the USERS table: alerts enabled / disabled
KOOTENAI == [name |-> "KOOTENAI", alertsOn |-> TRUE]
PROLOGIS == [name |-> "PROLOGIS", alertsOn |-> FALSE]
CPI      == [name |-> "CPI",  alertsOn |-> TRUE]
MOSS     == [name |-> "MOSS", alertsOn |-> TRUE]
CALPINE  == [name |-> "CALPINE", alertsOn |-> TRUE]
\* the account of the development harness: alertsOn is not set, the destructured
\* value is undefined and every test of it is false
DEV      == [name |-> "DEV", alertsOn |-> FALSE]

UserNames == {"KOOTENAI", "PROLOGIS", "CPI", "MOSS", "CALPINE", "DEV"}

\* --------------------------------------------------------------- the fleet
\* Serial numbers are token sequences, "ST-1" is <<"ST", "-", "1">>.
ST1 == <<"ST", "-", "1">>
SK2 == <<"SK", "-", "2">>
HB3 == <<"HB", "-", "3">>

\* station ids an account's station list may name, in list order
Fleet(name) ==
  CASE name = "CPI"  -> <<"201", "202">>
    [] name = "MOSS" -> <<"301">>
    [] name = "CALPINE" -> <<"401">>
    [] OTHER         -> <<"101">>

StationIds == {"101", "201", "202", "301", "401"}

\* the devices a station's diagnostics may report, in response order
Roster(id) ==
  CASE id = "101" -> <<ST1, SK2, HB3>>
    [] id = "201" -> <<ST1, SK2>>
    [] id = "401" -> <<SK2>>
    [] OTHER      -> <<>>

\* station.state values: 1 is online, anything else offline
StationStates == {0, 1}

\* ------------------------------------------------------ sequence utilities
RECURSIVE SeqSum(_)
SeqSum(s) == IF s = <<>> THEN 0 ELSE Head(s) + SeqSum(Tail(s))

RECURSIVE FlatMap(_)
\* concatenation of a sequence of sequences (Array.prototype.flat)
FlatMap(ss) == IF ss = <<>> THEN <<>> ELSE Head(ss) \o FlatMap(Tail(ss))

Range(s) == {s[k] : k \in 1..Len(s)}

Includes(s, x) == \E k \in 1..Len(s) : s[k] = x

\* ------------------------------------------------------------ the decoder
RECURSIVE BitAnd(_, _)
BitAnd(a, b) ==
  IF a = 0 \/ b = 0 THEN 0
  ELSE (IF a % 2 = 1 /\ b % 2 = 1 THEN 1 ELSE 0) + 2 * BitAnd(a \div 2, b \div 2)

\* DeviceStatus.sensors: per device type, the sensors and their flags
sensors(deviceType) ==
  CASE deviceType = <<"ST">> ->
         << [label |-> "wind",      flags |-> << [flag |-> 1, type |-> "error"] >>],
            [label |-> "lightning", flags |-> << [flag |-> 2, type |-> "warning"] >>] >>
    [] deviceType = <<"SK">> ->
         << [label |-> "wind",   flags |-> << [flag |-> 1, type |-> "error"] >>],
            [label |-> "precip", flags |-> << [flag |-> 2, type |-> "error"] >>] >>
    [] OTHER -> <<>>

_hasSensorError(rawStatus, flag) == BitAnd(rawStatus, flag) # 0

\* every (label, flag) pair of a device type, in table order
FlagList(deviceType) ==
  LET defs == sensors(deviceType)
  IN FlatMap([d \in 1..Len(defs) |->
        [k \in 1..Len(defs[d].flags) |->
           [label |-> defs[d].label,
            flag  |-> defs[d].flags[k].flag,
            type  |-> defs[d].flags[k].type]]])

findStatus(rawStatus, deviceType) ==
  LET fl == FlagList(deviceType)
  IN IF \E k \in 1..Len(fl) : fl[k].type = "error" /\ _hasSensorError(rawStatus, fl[k].flag)
       THEN "failure"
     ELSE IF \E k \in 1..Len(fl) : fl[k].type = "warning" /\ _hasSensorError(rawStatus, fl[k].flag)
       THEN "warning"
     ELSE "ok"

\* serial.includes('HB')
IncludesHB(serial) == Includes(serial, "HB")

\* serial.split('-')[0]
RECURSIVE SplitFirst(_)
SplitFirst(serial) ==
  IF serial = <<>> \/ Head(serial) = "-" THEN <<>>
  ELSE <<Head(serial)>> \o SplitFirst(Tail(serial))

\* variant: a set flag names a failure whatever its severity
IsFailingFlag_AnySeverity(f, rawStatus) == _hasSensorError(rawStatus, f.flag)

IsFailingFlag(f, rawStatus) == f.type = "error" /\ _hasSensorError(rawStatus, f.flag)

\* variant: the classification is asked for the serial, not for the device type
DecodeDevice_StatusOfSerial(device) ==
  LET deviceType   == SplitFirst(device.serial_number)
      sensorStatus == findStatus(device.sensor_status, device.serial_number)
      fl           == FlagList(deviceType)
      hit(f)       == IsFailingFlag(f, device.sensor_status)
      failing      == SelectSeq(fl, hit)
  IN [serial       |-> device.serial_number,
      deviceType   |-> deviceType,
      rawStatus    |-> device.sensor_status,
      sensorStatus |-> sensorStatus,
      failures     |-> IF sensorStatus = "failure"
                         THEN [k \in 1..Len(failing) |-> failing[k].label]
                         ELSE <<>>]

DecodeDevice(device) ==
  LET deviceType   == SplitFirst(device.serial_number)
      sensorStatus == findStatus(device.sensor_status, deviceType)
      fl           == FlagList(deviceType)
      hit(f)       == IsFailingFlag(f, device.sensor_status)
      failing      == SelectSeq(fl, hit)
  IN [serial       |-> device.serial_number,
      deviceType   |-> deviceType,
      rawStatus    |-> device.sensor_status,
      sensorStatus |-> sensorStatus,
      failures     |-> IF sensorStatus = "failure"
                         THEN [k \in 1..Len(failing) |-> failing[k].label]
                         ELSE <<>>]

\* variant: no device is left out
NotHB_KeepAll(device) == TRUE

NotHB(device) == ~IncludesHB(device.serial_number)

processDevices(devices) ==
  LET kept == SelectSeq(devices, NotHB)
  IN [k \in 1..Len(kept) |-> DecodeDevice(kept[k])]

\* ------------------------------------------------------- the snapshot cache
\* One cache value per station id.  shape tells the JSON shape of the value:
\*   "absent"  no key,  "legacy"  the string "offline" (oldest writer),
\*   "flat"    {offline, failures: [...]} (earlier writer),
\*   "nested"  {offline, <serial>: {failures, failureCount}} (current writer),
\*   "scalar"  a value that is not an object and not that string (a number, true),
\*   "nullfield"  an object {offline, <key>: null} without a failures array.
Absent == [shape |-> "absent", offline |-> FALSE, failures |-> <<>>, devs |-> <<>>]
Legacy == [shape |-> "legacy", offline |-> FALSE, failures |-> <<>>, devs |-> <<>>]
Flat(off, fs) == [shape |-> "flat", offline |-> off, failures |-> fs, devs |-> <<>>]
Scalar == [shape |-> "scalar", offline |-> FALSE, failures |-> <<>>, devs |-> <<>>]
NullField(off) == [shape |-> "nullfield", offline |-> off, failures |-> <<>>, devs |-> <<>>]

EmptyCache == [id \in StationIds |-> Absent]

\* entry[key] = val on an object kept as its list of properties in insertion order
SetKey(devs, val) ==
  IF \E k \in 1..Len(devs) : devs[k].serial = val.serial
    THEN [k \in 1..Len(devs) |-> IF devs[k].serial = val.serial THEN val ELSE devs[k]]
    ELSE Append(devs, val)

\* variant: the entry records the devices but not their failing sensors
buildStationCacheEntry_NoFailures(statuses, isOffline) ==
  [shape |-> "nested", offline |-> isOffline, failures |-> <<>>,
   devs |-> [k \in 1..Len(statuses) |->
               [serial |-> statuses[k].serial, failures |-> <<>>, failureCount |-> 0]]]

\* variant: a station with a failing device is recorded offline
buildStationCacheEntry_OfflineIfFailing(statuses, isOffline) ==
  LET RECURSIVE Fill(_, _)
      Fill(k, devs) ==
        IF k > Len(statuses) THEN devs
        ELSE Fill(k + 1,
                  SetKey(devs, [serial       |-> statuses[k].serial,
                                failures     |-> statuses[k].failures,
                                failureCount |-> IF Len(statuses[k].failures) > 0 THEN 1 ELSE 0]))
  IN [shape |-> "nested",
      offline |-> isOffline \/ \E k \in 1..Len(statuses) : Len(statuses[k].failures) > 0,
      failures |-> <<>>, devs |-> Fill(1, <<>>)]

buildStationCacheEntry(statuses, isOffline) ==
  LET RECURSIVE Fill(_, _)
      Fill(k, devs) ==
        IF k > Len(statuses) THEN devs
        ELSE Fill(k + 1,
                  SetKey(devs, [serial       |-> statuses[k].serial,
                                failures     |-> statuses[k].failures,
                                failureCount |-> IF Len(statuses[k].failures) > 0 THEN 1 ELSE 0]))
  IN [shape |-> "nested", offline |-> isOffline, failures |-> <<>>, devs |-> Fill(1, <<>>)]

\* variant: a station without an entry counts as recorded offline
wasOffline_AbsentOffline(prevEntry) ==
  prevEntry.shape = "absent" \/ (prevEntry.shape \in {"flat", "nested"} /\ prevEntry.offline)

\* prevEntry.offline of (cache[id] || {}), as a truth value
wasOffline(prevEntry) ==
  prevEntry.shape \in {"flat", "nested", "nullfield"} /\ prevEntry.offline

\* variant: the failures of an entry recorded offline are not consulted
oldFailures_OnlineOnly(prevEntry) ==
  IF prevEntry.offline THEN <<>>
  ELSE IF prevEntry.shape = "flat" THEN prevEntry.failures
  ELSE FlatMap([k \in 1..Len(prevEntry.devs) |-> prevEntry.devs[k].failures])

\* Object.values(prevEntry).filter(v => v.failures) reads a property of null
oldFailuresThrows(prevEntry) == prevEntry.shape = "nullfield"

\* variant: only the failures array of the entry itself is read
oldFailures_ArrayOnly(prevEntry) ==
  IF prevEntry.shape = "flat" THEN prevEntry.failures ELSE <<>>

\* the previous failure list of the diff
oldFailures(prevEntry) ==
  IF prevEntry.shape = "flat" THEN prevEntry.failures
  ELSE FlatMap([k \in 1..Len(prevEntry.devs) |-> prevEntry.devs[k].failures])


\* --------------------------------------------------------------- the state
VARIABLES
  USERS,               \* the configured accounts, in configuration order
  run,                 \* number of completed checkAll runs
  pc,                  \* position of the run: idle, fetch, load, loop, metrics, return
  ui,                  \* checkAll: index in USERS of the account being processed
  anyOffline, details, \* checkAll: the offline tally
  store,               \* the persisted cache objects, one per account name
  stationsData,        \* processUser: the fetched station list
  cache, newCache,     \* processUser: the snapshot read and the image being built
  si,                  \* processUser: index in stationsData of the next station
  healthyCount, offlineCount, sensorFailureCounts,
  ret,                 \* processUser: the returned offline count
  alerts,              \* Slack posts attempted in the current cycle, in order
  seen,                \* per processed station of the cycle: what was evaluated
  io,                  \* outcome of the external calls of the current cycle
  metrics,             \* the metric batch delivered in the current cycle
  last,                \* per account and station: the input of its last saved evaluation
  other,               \* a second invocation of the handler, running beside the run above
  runlog,              \* checkAll: per account processed in the run, how its processUser call ended
  lost,                \* per watched account: the evaluation of its last cycle whose cache write failed
  present,             \* the account names whose cache object exists in the bucket
  twin,                \* the same run with alertsOn negated for every account, fed the same outcomes
  decoded,             \* the input and the result of one evaluation of a station, taken alone
  hist                 \* what the cycles of a watched one-station account did, over the cycles

vars == << USERS, run, pc, ui, anyOffline, details, store, stationsData, cache,
           newCache, si, healthyCount, offlineCount, sensorFailureCounts, ret,
           alerts, seen, io, metrics, last, other, runlog, lost, present, twin, decoded, hist >>

\* ------------------------------------------------------------ environment
\* a station list response: some of the fleet's stations, each with a state
ListsOf(name) ==
  LET ids == Fleet(name)
  IN UNION { { [k \in 1..Len(sub) |-> [station_id |-> sub[k], state |-> st[k]]] :
                 st \in [1..Len(sub) -> StationStates] } :
             sub \in { SelectSeq(ids, LAMBDA x : x \in keep) : keep \in SUBSET Range(ids) } }

StationLists == [name \in UserNames |-> ListsOf(name)]

\* a diagnostics response: some of the station's devices, each with a raw status
DeviceLists(id) ==
  LET all == Roster(id)
  IN UNION { { [k \in 1..Len(sub) |-> [serial_number |-> sub[k], sensor_status |-> raw[k]]] :
                 raw \in [1..Len(sub) -> 0..RawMax] } :
             sub \in { SelectSeq(all, LAMBDA x : x \in keep) : keep \in SUBSET Range(all) } }

\* cache values left by earlier writers of the cache object
InitEntries ==
  {Absent, Legacy} \cup
  { Flat(off, fs) : off \in BOOLEAN, fs \in {<<>>, <<"wind">>, <<"wind", "precip">>} }

\* the cache objects holding a value of InitEntries for station id and nothing else
InitCaches ==
  [id \in StationIds |-> { [EmptyCache EXCEPT ![id] = e] : e \in InitEntries }]

NoInput == [set |-> FALSE, state |-> 1, statuses |-> <<>>]

ZeroCounts == [k \in Range(SENSOR_KEYS) |-> 0]

NoIo == [list |-> "none", load |-> "none", save |-> "none", metrics |-> "none"]

\* nothing recorded about a failed cache write; on tells whether the account is watched
NoLoss(on) == [on |-> on, set |-> FALSE, loadOk |-> FALSE, inputs |-> <<>>, posts |-> <<>>]

\* the account with the alerts switch negated
TwinUser(u) == [u EXCEPT !.alertsOn = ~u.alertsOn]

\* the twin run between two cycles, on the cache objects st
TwinIdle(st) ==
  [store |-> st, cache |-> EmptyCache, newCache |-> EmptyCache, healthy |-> 0, offline |-> 0,
   counts |-> ZeroCounts, sent |-> 0, metrics |-> <<>>, ret |-> 0]

\* no second invocation in progress; ui is the account it processed last
NoOther == [pc |-> "idle", ui |-> 0, stationsData |-> <<>>, cache |-> EmptyCache,
            newCache |-> EmptyCache, si |-> 0, alerts |-> <<>>]

\* -------------------------------------------------------------------- Init
\* no station has been evaluated alone
NoDecoded == [set |-> FALSE, alertsOn |-> FALSE, id |-> "", state |-> 1, devices |-> <<>>,
              prevEntry |-> Absent, statuses |-> <<>>, posts |-> <<>>, entry |-> Absent,
              branch |-> ""]

\* the sensor labels followed over the cycles
WatchLabels == {"wind", "precip"}

\* no evaluation of the station is behind its stored entry
NoPrev == [set |-> FALSE, state |-> 1, statuses |-> <<>>, failed |-> {}]

\* nothing recorded about the cycles; watch tells whether the account is watched
NoHist(watch) ==
  [watch   |-> watch,
   clean   |-> TRUE,
   streak  |-> [s \in WatchLabels |-> [on |-> FALSE, sent |-> 0]],
   entered |-> [s \in WatchLabels |-> [how |-> "out", via |-> ""]],
   prev    |-> NoPrev,
   cleared |-> [s \in WatchLabels |-> FALSE]]

InitLocals ==
  /\ stationsData = <<>>
  /\ cache = EmptyCache
  /\ newCache = EmptyCache
  /\ si = 0
  /\ healthyCount = 0
  /\ offlineCount = 0
  /\ sensorFailureCounts = ZeroCounts
  /\ ret = 0
  /\ alerts = <<>>
  /\ seen = <<>>
  /\ io = NoIo
  /\ metrics = <<>>

Init ==
  /\ USERS \in { <<KOOTENAI>>, <<PROLOGIS>>, <<DEV>> }
  /\ run = 0
  /\ pc = "idle"
  /\ ui = 0
  /\ anyOffline = FALSE
  /\ details = <<>>
  /\ \E c \in InitCaches["101"] :
       /\ store = [n \in UserNames |-> IF n = USERS[1].name THEN c ELSE EmptyCache]
       /\ present \in IF c = EmptyCache THEN { {}, {USERS[1].name} } ELSE { {USERS[1].name} }
  /\ last = [n \in UserNames |-> [id \in StationIds |-> NoInput]]
  /\ other = NoOther
  /\ runlog = <<>>
  /\ lost = [n \in UserNames |-> NoLoss(FALSE)]
  /\ twin = TwinIdle(store)
  /\ decoded = NoDecoded
  /\ hist = NoHist(FALSE)
  /\ InitLocals

ResetLocals ==
  /\ stationsData' = <<>>
  /\ cache' = EmptyCache
  /\ newCache' = EmptyCache
  /\ si' = 0
  /\ healthyCount' = 0
  /\ offlineCount' = 0
  /\ sensorFailureCounts' = ZeroCounts
  /\ ret' = 0
  /\ alerts' = <<>>
  /\ seen' = <<>>
  /\ io' = NoIo
  /\ metrics' = <<>>

user == USERS[ui]

\* ---------------------------------------------------------------- checkAll
\* checkAll entry: anyOffline = false, details = [], first account
StartRun ==
  /\ pc = "idle"
  /\ run < MaxRuns
  /\ ui' = 1
  /\ anyOffline' = FALSE
  /\ details' = <<>>
  /\ runlog' = <<>>
  /\ pc' = "fetch"
  /\ UNCHANGED << USERS, run, store, stationsData, cache, newCache, si, healthyCount,
                  offlineCount, sensorFailureCounts, ret, alerts, seen, io, metrics, last, other, lost, present, twin, decoded, hist >>

\* variant: a failed list fetch goes on with an empty list
FetchStations_FailedGoesOn ==
  /\ pc = "fetch"
  /\ \E ok \in BOOLEAN :
       IF ok
         THEN /\ \E list \in StationLists[user.name] : stationsData' = list
              /\ io' = [io EXCEPT !.list = "ok"]
              /\ pc' = "load"
              /\ ret' = ret
         ELSE /\ stationsData' = stationsData
              /\ io' = [io EXCEPT !.list = "failed"]
              /\ pc' = "load"
              /\ ret' = 0
  /\ UNCHANGED << USERS, run, ui, anyOffline, details, store, cache, newCache, si,
                  healthyCount, offlineCount, sensorFailureCounts, alerts, seen, metrics, last, other, runlog, lost, present, twin, decoded, hist >>

\* processUser 1): the station list fetch
FetchStations ==
  /\ pc = "fetch"
  /\ \E ok \in BOOLEAN :
       IF ok
         THEN /\ \E list \in StationLists[user.name] : stationsData' = list
              /\ io' = [io EXCEPT !.list = "ok"]
              /\ pc' = "load"
              /\ ret' = ret
         ELSE /\ stationsData' = stationsData
              /\ io' = [io EXCEPT !.list = "failed"]
              /\ pc' = "return"
              /\ ret' = 0
  /\ UNCHANGED << USERS, run, ui, anyOffline, details, store, cache, newCache, si,
                  healthyCount, offlineCount, sensorFailureCounts, alerts, seen, metrics, last, other, runlog, lost, present, twin, decoded, hist >>

\* variant: one object key for all accounts, the first account's
loadCacheFor_SharedKey(userName) ==
  IF USERS[1].name \in present THEN store[USERS[1].name] ELSE EmptyCache

\* cache.js loadCacheFor: the parsed object as stored; {} when getObject answers
\* NoSuchKey or NotFound
loadCacheFor(userName) == IF userName \in present THEN store[userName] ELSE EmptyCache

\* variant: the catch of the cache read keeps what the object holds
LoadCache_FailedKeepsStore ==
  /\ pc = "load"
  /\ \E ok \in BOOLEAN :
       /\ cache' = store[user.name]
       /\ io' = [io EXCEPT !.load = IF ok THEN "ok" ELSE "failed"]
  /\ twin' = [twin EXCEPT !.cache = twin.store[user.name], !.newCache = twin.store[user.name],
                          !.healthy = 0, !.offline = 0]
  /\ newCache' = cache'
  /\ healthyCount' = 0
  /\ offlineCount' = 0
  /\ si' = 1
  /\ pc' = "loop"
  /\ UNCHANGED << USERS, run, ui, anyOffline, details, store, stationsData,
                  sensorFailureCounts, ret, alerts, seen, metrics, last, other, runlog,
                  lost, present, decoded, hist >>

\* processUser 2): the cache read, newCache = {...cache}
\* variant: the new image starts empty, not as a copy of the cache read
LoadCache_ImageStartsEmpty ==
  /\ pc = "load"
  /\ \E ok \in BOOLEAN :
       /\ cache' = IF ok THEN loadCacheFor(user.name) ELSE EmptyCache
       /\ io' = [io EXCEPT !.load = IF ok THEN "ok" ELSE "failed"]
       /\ LET c == IF ok /\ user.name \in present THEN twin.store[user.name] ELSE EmptyCache
          IN twin' = [twin EXCEPT !.cache = c, !.newCache = c, !.healthy = 0, !.offline = 0]
  /\ newCache' = EmptyCache
  /\ healthyCount' = 0
  /\ offlineCount' = 0
  /\ si' = 1
  /\ pc' = "loop"
  /\ UNCHANGED << USERS, run, ui, anyOffline, details, store, stationsData,
                  sensorFailureCounts, ret, alerts, seen, metrics, last, other, runlog,
                  lost, present, decoded, hist >>

LoadCache ==
  /\ pc = "load"
  /\ \E ok \in BOOLEAN :
       /\ cache' = IF ok THEN loadCacheFor(user.name) ELSE EmptyCache
       /\ io' = [io EXCEPT !.load = IF ok THEN "ok" ELSE "failed"]
       /\ LET c == IF ok /\ user.name \in present THEN twin.store[user.name] ELSE EmptyCache
          IN twin' = [twin EXCEPT !.cache = c, !.newCache = c, !.healthy = 0, !.offline = 0]
  /\ newCache' = cache'
  /\ healthyCount' = 0
  /\ offlineCount' = 0
  /\ si' = 1
  /\ pc' = "loop"
  /\ UNCHANGED << USERS, run, ui, anyOffline, details, store, stationsData,
                  sensorFailureCounts, ret, alerts, seen, metrics, last, other, runlog,
                  lost, present, decoded, hist >>

\* ------------------------------------------------- processUser 3): a station
IsFailure(ds) == ds.sensorStatus = "failure"

failuresOnly(statuses) == SelectSeq(statuses, IsFailure)

currentFailures(statuses) ==
  LET fo == failuresOnly(statuses)
  IN FlatMap([k \in 1..Len(fo) |-> fo[k].failures])

\* variant: no diff against the previous failures
newFailures_All(statuses, prevEntry) == currentFailures(statuses)

newFailures(statuses, prevEntry) ==
  LET old == oldFailures(prevEntry)
  IN SelectSeq(currentFailures(statuses), LAMBDA s : ~Includes(old, s))

\* variant: a device with a new sensor is announced with all its failing sensors
deviceFailuresMap_AllSensors(statuses, prevEntry) ==
  LET fo  == failuresOnly(statuses)
      new == newFailures(statuses, prevEntry)
      RECURSIVE Fill(_, _)
      Fill(k, map) ==
        IF k > Len(fo) THEN map
        ELSE LET newDeviceFailures == SelectSeq(fo[k].failures, LAMBDA s : Includes(new, s))
             IN Fill(k + 1,
                     IF Len(newDeviceFailures) > 0
                       THEN SetKey(map, [serial |-> fo[k].serial, sensors |-> fo[k].failures])
                       ELSE map)
  IN Fill(1, <<>>)

\* deviceFailuresMap: per failing device its new sensors, devices without one left out
deviceFailuresMap(statuses, prevEntry) ==
  LET fo  == failuresOnly(statuses)
      new == newFailures(statuses, prevEntry)
      RECURSIVE Fill(_, _)
      Fill(k, map) ==
        IF k > Len(fo) THEN map
        ELSE LET newDeviceFailures == SelectSeq(fo[k].failures, LAMBDA s : Includes(new, s))
             IN Fill(k + 1,
                     IF Len(newDeviceFailures) > 0
                       THEN SetKey(map, [serial |-> fo[k].serial, sensors |-> newDeviceFailures])
                       ELSE map)
  IN Fill(1, <<>>)

Post(kind, name, id, labels) == [kind |-> kind, user |-> name, id |-> id, sensors |-> labels]

\* branch A: unhealthy but online
SensorFailurePosts(u, id, statuses, prevEntry) ==
  LET map == deviceFailuresMap(statuses, prevEntry)
  IN IF u.alertsOn /\ Len(newFailures(statuses, prevEntry)) > 0
       THEN [k \in 1..Len(map) |-> Post("sensor", u.name, id, map[k].sensors)]
       ELSE <<>>

\* branch B: recovered
RecoveryPosts(u, id) ==
  IF u.alertsOn THEN << Post("recovery", u.name, id, <<>>) >> ELSE <<>>

\* variant: the offline alert is sent on every poll of an offline station
OfflinePosts_EveryPoll(u, id, statuses, prevEntry) ==
  IF u.alertsOn
    THEN << Post("offline", u.name, id, currentFailures(statuses)) >>
    ELSE <<>>

\* variant: the offline alert lists only the sensors new since the snapshot
OfflinePosts_NewOnly(u, id, statuses, prevEntry) ==
  IF ~wasOffline(prevEntry) /\ u.alertsOn
    THEN << Post("offline", u.name, id, newFailures(statuses, prevEntry)) >>
    ELSE <<>>

\* branch D: just went offline
OfflinePosts(u, id, statuses, prevEntry) ==
  IF ~wasOffline(prevEntry) /\ u.alertsOn
    THEN << Post("offline", u.name, id, currentFailures(statuses)) >>
    ELSE <<>>

\* variant: branch A does not test isOffline
Branch_FailuresFirst(isOffline, statuses, prevEntry) ==
  IF Len(currentFailures(statuses)) > 0 THEN "A"
  ELSE IF ~isOffline /\ wasOffline(prevEntry) THEN "B"
  ELSE IF ~isOffline THEN "C"
  ELSE IF ~wasOffline(prevEntry) THEN "D"
  ELSE "E"

\* the branch of the loop body a station takes
Branch(isOffline, statuses, prevEntry) ==
  IF ~isOffline /\ Len(currentFailures(statuses)) > 0 THEN "A"
  ELSE IF ~isOffline /\ wasOffline(prevEntry) THEN "B"
  ELSE IF ~isOffline THEN "C"
  ELSE IF ~wasOffline(prevEntry) THEN "D"
  ELSE "E"

\* variant: branch B rebuilds the entry instead of deleting the key
Evaluate_RecoveredKeeps(u, id, isOffline, statuses, prevEntry) ==
  LET b == Branch(isOffline, statuses, prevEntry)
  IN [branch |-> b,
      posts  |-> CASE b = "A" -> SensorFailurePosts(u, id, statuses, prevEntry)
                   [] b = "B" -> RecoveryPosts(u, id)
                   [] b = "C" -> <<>>
                   [] OTHER   -> OfflinePosts(u, id, statuses, prevEntry),
      entry  |-> IF b = "B" THEN [prevEntry EXCEPT !.offline = FALSE]
                 ELSE buildStationCacheEntry(statuses, isOffline)]

\* variant: a station that stays offline keeps its previous entry
Evaluate_KeepOffline(u, id, isOffline, statuses, prevEntry) ==
  LET b == Branch(isOffline, statuses, prevEntry)
  IN [branch |-> b,
      posts  |-> CASE b = "A" -> SensorFailurePosts(u, id, statuses, prevEntry)
                   [] b = "B" -> RecoveryPosts(u, id)
                   [] b = "C" -> <<>>
                   [] OTHER   -> OfflinePosts(u, id, statuses, prevEntry),
      entry  |-> IF b = "B" THEN Absent
                 ELSE IF b = "E" THEN prevEntry
                 ELSE buildStationCacheEntry(statuses, isOffline)]

\* variant: the cache value is rebuilt only for an account with alerts enabled
Evaluate_WritesWhenAlerting(u, id, isOffline, statuses, prevEntry) ==
  LET b == Branch(isOffline, statuses, prevEntry)
  IN [branch |-> b,
      posts  |-> CASE b = "A" -> SensorFailurePosts(u, id, statuses, prevEntry)
                   [] b = "B" -> RecoveryPosts(u, id)
                   [] b = "C" -> <<>>
                   [] OTHER   -> OfflinePosts(u, id, statuses, prevEntry),
      entry  |-> IF b = "B" THEN Absent
                 ELSE IF b \in {"A", "D"} /\ ~u.alertsOn THEN prevEntry
                 ELSE buildStationCacheEntry(statuses, isOffline)]

\* the loop body from "Identify failures" on: posts to send and the new cache value
\* variant: a healthy online station leaves its entry as it is
Evaluate_HealthyUntouched(u, id, isOffline, statuses, prevEntry) ==
  LET b == Branch(isOffline, statuses, prevEntry)
  IN [branch |-> b,
      posts  |-> CASE b = "A" -> SensorFailurePosts(u, id, statuses, prevEntry)
                   [] b = "B" -> RecoveryPosts(u, id)
                   [] b = "C" -> <<>>
                   [] OTHER   -> OfflinePosts(u, id, statuses, prevEntry),
      entry  |-> IF b = "B" THEN Absent
                 ELSE IF b = "C" /\ prevEntry.shape \in {"flat", "nested"} THEN prevEntry
                 ELSE buildStationCacheEntry(statuses, isOffline)]

Evaluate(u, id, isOffline, statuses, prevEntry) ==
  LET b == Branch(isOffline, statuses, prevEntry)
  IN [branch |-> b,
      posts  |-> CASE b = "A" -> SensorFailurePosts(u, id, statuses, prevEntry)
                   [] b = "B" -> RecoveryPosts(u, id)
                   [] b = "C" -> <<>>
                   [] OTHER   -> OfflinePosts(u, id, statuses, prevEntry),
      entry  |-> IF b = "B" THEN Absent ELSE buildStationCacheEntry(statuses, isOffline)]

\* the loop body throws: branch A computes oldFailures whatever alertsOn is
EvaluateThrows(isOffline, statuses, prevEntry) ==
  Branch(isOffline, statuses, prevEntry) = "A" /\ oldFailuresThrows(prevEntry)

\* variant: a label failing on several devices of a station is counted once
CountFailures_OncePerLabel(counts, statuses) ==
  LET cf == currentFailures(statuses)
  IN [key \in DOMAIN counts |-> counts[key] + (IF Includes(cf, key) THEN 1 ELSE 0)]

\* sensorFailureCounts after the failures of an offline station are counted
CountFailures(counts, statuses) ==
  LET cf == currentFailures(statuses)
  IN [key \in DOMAIN counts |-> counts[key] + Cardinality({k \in 1..Len(cf) : cf[k] = key})]

\* variant: the posts after a failed delivery are not attempted
Deliver_StopAtFailure(posts, oks) ==
  LET sent == IF \E k \in 1..Len(posts) : ~oks[k]
                THEN CHOOSE k \in 1..Len(posts) : ~oks[k] /\ \A j \in 1..(k - 1) : oks[j]
                ELSE Len(posts)
  IN [k \in 1..sent |->
        [kind |-> posts[k].kind, user |-> posts[k].user, id |-> posts[k].id,
         sensors |-> posts[k].sensors, ok |-> oks[k]]]

\* Slack.sendAlert for each post of a station in turn: a failed post is logged
\* and the next one is attempted
Deliver(posts, oks) ==
  [k \in 1..Len(posts) |->
     [kind |-> posts[k].kind, user |-> posts[k].user, id |-> posts[k].id,
      sensors |-> posts[k].sensors, ok |-> oks[k]]]

DiagResults(id) ==
  { [ok |-> FALSE, devices |-> <<>>] } \cup
  { [ok |-> TRUE, devices |-> dl] : dl \in DeviceLists(id) }

\* variant: the body is decoded whatever the outcome of the request
Diagnostics_DecodeAnyway ==
  [id \in StationIds |->
     { [ok |-> o, statuses |-> processDevices(dl)] : o \in BOOLEAN, dl \in DeviceLists(id) }]

\* per station id, the (fetch outcome, decoded statuses) pairs of its diagnostics results:
\* statuses = [] unless the fetch succeeds, then processDevices(devices)
Diagnostics ==
  [id \in StationIds |->
     { [ok |-> d.ok, statuses |-> IF d.ok THEN processDevices(d.devices) ELSE <<>>] :
         d \in DiagResults(id) }]

ProcessStation ==
  /\ pc = "loop"
  /\ si <= Len(stationsData)
  /\ LET station   == stationsData[si]
         id        == station.station_id
         prevEntry == cache[id]
         isOffline == station.state # 1
     IN \E d \in Diagnostics[id] :
          LET statuses == d.statuses
              r        == Evaluate(user, id, isOffline, statuses, prevEntry)
          IN /\ ~EvaluateThrows(isOffline, statuses, prevEntry)
             /\ sensorFailureCounts' =
                  IF isOffline THEN CountFailures(sensorFailureCounts, statuses)
                               ELSE sensorFailureCounts
             /\ offlineCount' = IF isOffline THEN offlineCount + 1 ELSE offlineCount
             /\ healthyCount' =
                  IF ~isOffline /\ Len(currentFailures(statuses)) = 0
                    THEN healthyCount + 1 ELSE healthyCount
             /\ newCache' = [newCache EXCEPT ![id] = r.entry]
             /\ \E oks \in [1..Len(r.posts) -> BOOLEAN] :
                  alerts' = alerts \o Deliver(r.posts, oks)
             /\ seen' = Append(seen, [id |-> id, state |-> station.state, diagOk |-> d.ok,
                                      statuses |-> statuses, branch |-> r.branch])
             /\ LET tr == Evaluate(TwinUser(user), id, isOffline, statuses, twin.cache[id])
                IN twin' = [twin EXCEPT
                     !.counts   = IF isOffline THEN CountFailures(@, statuses) ELSE @,
                     !.offline  = IF isOffline THEN @ + 1 ELSE @,
                     !.healthy  = IF ~isOffline /\ Len(currentFailures(statuses)) = 0
                                    THEN @ + 1 ELSE @,
                     !.newCache = [@ EXCEPT ![id] = tr.entry],
                     !.sent     = @ + Len(tr.posts)]
  /\ si' = si + 1
  /\ UNCHANGED << USERS, run, pc, ui, anyOffline, details, store, stationsData, cache,
                  ret, io, metrics, last, other, runlog, lost, present, decoded, hist >>

\* ------------------------------------------ processUser 4): the cache write
\* the input of the cycle's evaluation of station id, when it is listed; an
\* unlisted station keeps its entry, and so its last input, unless the cycle
\* started from an empty cache
InputOf(id, old) ==
  IF \E k \in 1..Len(seen) : seen[k].id = id
    THEN LET k == CHOOSE j \in 1..Len(seen) :
                    seen[j].id = id /\ \A m \in (j + 1)..Len(seen) : seen[m].id # id
         IN [set |-> TRUE, state |-> seen[k].state, statuses |-> seen[k].statuses]
    ELSE IF io.load = "ok" THEN old ELSE NoInput

\* what a cycle evaluated, and what it posted whatever the delivery outcome
Inputs(sn) == [k \in 1..Len(sn) |-> [id |-> sn[k].id, state |-> sn[k].state, statuses |-> sn[k].statuses]]

Posts(al) == [k \in 1..Len(al) |-> Post(al[k].kind, al[k].user, al[k].id, al[k].sensors)]

\* variant: a failed write leaves an empty cache object behind
SaveCache_FailedWriteEmpties ==
  /\ pc = "loop"
  /\ io.list = "ok"
  /\ si > Len(stationsData)
  /\ \E ok \in BOOLEAN :
       /\ store' = [store EXCEPT ![user.name] = IF ok THEN newCache ELSE EmptyCache]
       /\ present' = present \cup {user.name}
       /\ last' = [last EXCEPT ![user.name] =
                     [id \in StationIds |-> IF ok THEN InputOf(id, last[user.name][id]) ELSE NoInput]]
       /\ lost' = [lost EXCEPT ![user.name] =
                     IF ok \/ ~@.on THEN NoLoss(@.on)
                     ELSE [on |-> TRUE, set |-> TRUE, loadOk |-> io.load = "ok",
                           inputs |-> Inputs(seen), posts |-> Posts(alerts)]]
       /\ io' = [io EXCEPT !.save = IF ok THEN "ok" ELSE "failed"]
       /\ twin' = [twin EXCEPT !.store[user.name] = IF ok THEN twin.newCache ELSE EmptyCache]
  /\ pc' = "metrics"
  /\ UNCHANGED << USERS, run, ui, anyOffline, details, stationsData, cache, newCache, si,
                  healthyCount, offlineCount, sensorFailureCounts, ret, alerts, seen, metrics,
                  other, runlog, decoded, hist >>

\* variant: the image is stored only when every alert of the cycle was delivered
SaveCache_OnlyWhenDelivered ==
  /\ pc = "loop"
  /\ io.list = "ok"
  /\ si > Len(stationsData)
  /\ \E ok \in BOOLEAN :
       IF ok
         THEN /\ store' = [store EXCEPT ![user.name] =
                             IF \A k \in 1..Len(alerts) : alerts[k].ok THEN newCache ELSE @]
              /\ present' = present \cup {user.name}
              /\ last' = [last EXCEPT ![user.name] =
                            [id \in StationIds |-> InputOf(id, last[user.name][id])]]
              /\ lost' = [lost EXCEPT ![user.name] = NoLoss(@.on)]
              /\ twin' = [twin EXCEPT !.store[user.name] = twin.newCache]
              /\ io' = [io EXCEPT !.save = "ok"]
         ELSE /\ UNCHANGED << store, last, present, twin >>
              /\ lost' = [lost EXCEPT ![user.name] =
                            IF @.on
                              THEN [on |-> TRUE, set |-> TRUE, loadOk |-> io.load = "ok",
                                    inputs |-> Inputs(seen), posts |-> Posts(alerts)]
                              ELSE @]
              /\ io' = [io EXCEPT !.save = "failed"]
  /\ pc' = "metrics"
  /\ UNCHANGED << USERS, run, ui, anyOffline, details, stationsData, cache, newCache, si,
                  healthyCount, offlineCount, sensorFailureCounts, ret, alerts, seen, metrics,
                  other, runlog, decoded, hist >>

SaveCache ==
  /\ pc = "loop"
  /\ io.list = "ok"
  /\ si > Len(stationsData)
  /\ \E ok \in BOOLEAN :
       IF ok
         THEN /\ store' = [store EXCEPT ![user.name] = newCache]
              /\ present' = present \cup {user.name}
              /\ last' = [last EXCEPT ![user.name] =
                            [id \in StationIds |-> InputOf(id, last[user.name][id])]]
              /\ lost' = [lost EXCEPT ![user.name] = NoLoss(@.on)]
              /\ twin' = [twin EXCEPT !.store[user.name] = twin.newCache]
              /\ io' = [io EXCEPT !.save = "ok"]
         ELSE /\ UNCHANGED << store, last, present, twin >>
              /\ lost' = [lost EXCEPT ![user.name] =
                            IF @.on
                              THEN [on |-> TRUE, set |-> TRUE, loadOk |-> io.load = "ok",
                                    inputs |-> Inputs(seen), posts |-> Posts(alerts)]
                              ELSE @]
              /\ io' = [io EXCEPT !.save = "failed"]
  /\ pc' = "metrics"
  /\ UNCHANGED << USERS, run, ui, anyOffline, details, stationsData, cache, newCache, si,
                  healthyCount, offlineCount, sensorFailureCounts, ret, alerts, seen, metrics,
                  other, runlog, decoded, hist >>

\* ---------------------------------------------- processUser 5): the metrics
Line(metric, value) == [metric |-> metric, value |-> value]

\* variant: every station that is not offline is reported healthy
buildMetricLines_HealthyIsRest(healthy, offline, totalStations, counts) ==
  << Line("healthy_count", totalStations - offline), Line("offline_count", offline) >>
  \o [k \in 1..Len(SENSOR_KEYS) |-> Line(SENSOR_KEYS[k], counts[SENSOR_KEYS[k]])]
  \o << Line("total_sensor_failure_count",
             SeqSum([k \in 1..Len(SENSOR_KEYS) |-> counts[SENSOR_KEYS[k]]])),
        Line("total_count", totalStations) >>

\* variant: the total is the number of stations counted healthy or offline
buildMetricLines_TotalOfCounted(healthy, offline, totalStations, counts) ==
  << Line("healthy_count", healthy), Line("offline_count", offline) >>
  \o [k \in 1..Len(SENSOR_KEYS) |-> Line(SENSOR_KEYS[k], counts[SENSOR_KEYS[k]])]
  \o << Line("total_sensor_failure_count",
             SeqSum([k \in 1..Len(SENSOR_KEYS) |-> counts[SENSOR_KEYS[k]]])),
        Line("total_count", healthy + offline) >>

buildMetricLines(healthy, offline, totalStations, counts) ==
  << Line("healthy_count", healthy), Line("offline_count", offline) >>
  \o [k \in 1..Len(SENSOR_KEYS) |-> Line(SENSOR_KEYS[k], counts[SENSOR_KEYS[k]])]
  \o << Line("total_sensor_failure_count",
             SeqSum([k \in 1..Len(SENSOR_KEYS) |-> counts[SENSOR_KEYS[k]]])),
        Line("total_count", totalStations) >>

EmitMetrics ==
  /\ pc = "metrics"
  /\ \E ok \in BOOLEAN :
       /\ metrics' = IF ok
                       THEN buildMetricLines(healthyCount, offlineCount,
                                             Len(stationsData), sensorFailureCounts)
                       ELSE <<>>
       /\ io' = [io EXCEPT !.metrics = IF ok THEN "ok" ELSE "failed"]
       /\ twin' = [twin EXCEPT
                     !.metrics = IF ok
                                   THEN buildMetricLines(twin.healthy, twin.offline,
                                                         Len(stationsData), twin.counts)
                                   ELSE <<>>,
                     !.ret = twin.offline]
  /\ ret' = offlineCount
  /\ pc' = "return"
  /\ UNCHANGED << USERS, run, ui, anyOffline, details, store, stationsData, cache, newCache,
                  si, healthyCount, offlineCount, sensorFailureCounts, alerts, seen, last,
                  other, runlog, lost, present, decoded, hist >>

\* ------------------------------------------------ the cycles of an account
\* the number of posts of the cycle, delivered or not, that name sensor s
Named(s) == Len(SelectSeq(alerts, LAMBDA a : Includes(a.sensors, s)))

Min(a, b) == IF a < b THEN a ELSE b

\* the account's one station was listed and evaluated in the cycle
Listed == io.list = "ok" /\ Len(seen) = 1

\* streak: s has been failing on the station, online, in every cycle since the
\* streak began, the cycles whose diagnostics request failed not telling
\* otherwise, with every cache read and write succeeding; sent counts the posts
\* naming s in those cycles (up to 2)
StreakAfter(s) ==
  LET old == hist.streak[s]
  IN IF /\ Listed /\ io.load = "ok" /\ io.save = "ok"
        /\ seen[1].state = 1
        /\ \/ s \in UNION { Range(seen[1].statuses[k].failures) : k \in 1..Len(seen[1].statuses) }
           \/ (~seen[1].diagOk /\ old.on)
       THEN [on |-> TRUE, sent |-> Min(2, (IF old.on THEN old.sent ELSE 0) + Named(s))]
       ELSE [on |-> FALSE, sent |-> 0]

\* the labels a cache value records as failing
Recorded(entry) ==
  IF entry.shape = "flat" THEN Range(entry.failures)
  ELSE UNION { Range(entry.devs[k].failures) : k \in 1..Len(entry.devs) }

\* entered: how s came into the failure set of the stored entry of the station
\* ("out" when it is not in it): announced by a post of the cycle that recorded
\* it or of a later cycle ("alerted") or by none ("quiet"), and the branch the
\* station took in the cycle that recorded it
EnteredAfter(s) ==
  LET old == hist.entered[s]
  IN IF ~(Listed /\ io.save = "ok") THEN old
     ELSE IF s \notin Recorded(newCache[seen[1].id]) THEN [how |-> "out", via |-> ""]
     ELSE IF old.how = "out" \/ s \notin Recorded(cache[seen[1].id])
       THEN [how |-> IF Named(s) > 0 THEN "alerted" ELSE "quiet", via |-> seen[1].branch]
     ELSE IF Named(s) > 0 THEN [old EXCEPT !.how = "alerted"]
     ELSE old

\* prev: the evaluation of the station behind its stored entry (reported state
\* and decoded diagnostics) and the posts of that cycle whose delivery failed
PrevAfter ==
  IF io.save # "ok" THEN hist.prev
  ELSE IF Listed
    THEN [set |-> TRUE, state |-> seen[1].state, statuses |-> seen[1].statuses,
          failed |-> { Post(alerts[k].kind, alerts[k].user, alerts[k].id, alerts[k].sensors) :
                         k \in { j \in 1..Len(alerts) : ~alerts[j].ok } }]
  ELSE IF io.load = "ok" THEN hist.prev
  ELSE NoPrev

\* cleared: a stored cycle found the station online, recorded online with s
\* failing, and s not failing any more, and no stored cycle has recorded s since
ClearedAfter(s) ==
  IF io.save # "ok" THEN hist.cleared[s]
  ELSE IF ~Listed THEN hist.cleared[s]
  ELSE IF s \in Recorded(newCache[seen[1].id]) THEN FALSE
  ELSE IF /\ io.load = "ok" /\ seen[1].state = 1
          /\ cache[seen[1].id].shape \in {"flat", "nested"} /\ ~cache[seen[1].id].offline
          /\ s \in Recorded(cache[seen[1].id])
    THEN TRUE
  ELSE hist.cleared[s]

\* every external call of the cycle succeeded
CycleClean ==
  /\ io.list = "ok" /\ io.load = "ok" /\ io.save = "ok" /\ io.metrics = "ok"
  /\ \A k \in 1..Len(seen) : seen[k].diagOk
  /\ \A k \in 1..Len(alerts) : alerts[k].ok

\* hist at the end of a cycle of a watched account
HistAfter ==
  IF ~hist.watch THEN hist
  ELSE [watch   |-> TRUE,
        clean   |-> hist.clean /\ CycleClean,
        streak  |-> [s \in WatchLabels |-> StreakAfter(s)],
        entered |-> [s \in WatchLabels |-> EnteredAfter(s)],
        prev    |-> PrevAfter,
        cleared |-> [s \in WatchLabels |-> ClearedAfter(s)]]

\* ------------------------------------------------- checkAll: after the await
\* how the processUser call of the current account ended: threw tells whether
\* it returned or rejected, done is the number of stations it had evaluated
Ended(threw) ==
  [name |-> user.name, list |-> io.list, ret |-> ret, threw |-> threw, done |-> Len(seen),
   saved |-> io.save # "none"]

\* variant: an account whose station list could not be fetched ends the run
Return_StopOnFailedFetch ==
  /\ pc = "return"
  /\ anyOffline' = (anyOffline \/ ret > 0)
  /\ details' = IF ret > 0 THEN Append(details, [name |-> user.name, cnt |-> ret]) ELSE details
  /\ IF ui < Len(USERS) /\ io.list # "failed"
       THEN /\ ui' = ui + 1
            /\ pc' = "fetch"
            /\ run' = run
       ELSE /\ ui' = 0
            /\ pc' = "idle"
            /\ run' = run + 1
  /\ runlog' = Append(runlog, Ended(FALSE))
  /\ twin' = TwinIdle(twin.store)
  /\ hist' = HistAfter
  /\ ResetLocals
  /\ UNCHANGED << USERS, store, last, other, lost, present, decoded >>

\* variant: the loop over the accounts steps by two
Return_EveryOther ==
  /\ pc = "return"
  /\ anyOffline' = (anyOffline \/ ret > 0)
  /\ details' = IF ret > 0 THEN Append(details, [name |-> user.name, cnt |-> ret]) ELSE details
  /\ IF ui + 1 < Len(USERS)
       THEN /\ ui' = ui + 2
            /\ pc' = "fetch"
            /\ run' = run
       ELSE /\ ui' = 0
            /\ pc' = "idle"
            /\ run' = run + 1
  /\ runlog' = Append(runlog, Ended(FALSE))
  /\ twin' = TwinIdle(twin.store)
  /\ hist' = HistAfter
  /\ ResetLocals
  /\ UNCHANGED << USERS, store, last, other, lost, present, decoded >>

\* cnt > 0 is tallied, then the next account or the end of the run
Return ==
  /\ pc = "return"
  /\ anyOffline' = (anyOffline \/ ret > 0)
  /\ details' = IF ret > 0 THEN Append(details, [name |-> user.name, cnt |-> ret]) ELSE details
  /\ IF ui < Len(USERS)
       THEN /\ ui' = ui + 1
            /\ pc' = "fetch"
            /\ run' = run
       ELSE /\ ui' = 0
            /\ pc' = "idle"
            /\ run' = run + 1
  /\ runlog' = Append(runlog, Ended(FALSE))
  /\ twin' = TwinIdle(twin.store)
  /\ hist' = HistAfter
  /\ ResetLocals
  /\ UNCHANGED << USERS, store, last, other, lost, present, decoded >>

Next ==
  \/ StartRun
  \/ FetchStations
  \/ LoadCache
  \/ ProcessStation
  \/ SaveCache
  \/ EmitMetrics
  \/ Return

Spec == Init /\ [][Next]_vars

\* ------------------------------------------------ malformed inputs
\* processUser 1) with a 200 response whose body has no stations array:
\* stationsData is undefined, nothing is thrown inside the try
FetchMalformed ==
  /\ pc = "fetch"
  /\ stationsData' = <<>>
  /\ io' = [io EXCEPT !.list = "malformed"]
  /\ pc' = "load"
  /\ UNCHANGED << USERS, run, ui, anyOffline, details, store, cache, newCache, si,
                  healthyCount, offlineCount, sensorFailureCounts, ret, alerts, seen,
                  metrics, last, other, runlog, lost, present, twin, decoded, hist >>

\* an exception outside every try block: for (const station of undefined), or
\* the oldFailures expression of branch A on an entry with a null value.
\* processUser rejects, checkAll awaits it without a catch and rejects too: the
\* run ends there, the remaining accounts are not processed, no cache is written
\* for the account and the offline tally is not reported.
Throw ==
  /\ pc = "loop"
  /\ \/ io.list = "malformed"
     \/ /\ io.list = "ok"
        /\ si <= Len(stationsData)
        /\ \E d \in Diagnostics[stationsData[si].station_id] :
             EvaluateThrows(stationsData[si].state # 1, d.statuses,
                            cache[stationsData[si].station_id])
  /\ runlog' = Append(runlog, Ended(TRUE))
  /\ ui' = 0
  /\ pc' = "idle"
  /\ run' = run + 1
  /\ twin' = TwinIdle(twin.store)
  /\ ResetLocals
  /\ UNCHANGED << USERS, anyOffline, details, store, last, other, lost, present, decoded, hist >>

\* cache values of a cache object edited or written by something else
HostileEntries == { Absent, Scalar, NullField(FALSE), NullField(TRUE) }

\* two accounts, the first with two stations, at the last of the runs explored
InitRun ==
  /\ USERS = <<CPI, MOSS>>
  /\ run = MaxRuns - 1
  /\ pc = "idle"
  /\ ui = 0
  /\ anyOffline = FALSE
  /\ details = <<>>
  /\ \E e \in HostileEntries, f \in {Absent, Scalar} :
       store = [n \in UserNames |->
                  IF n = "CPI" THEN [EmptyCache EXCEPT !["201"] = e, !["202"] = f]
                  ELSE EmptyCache]
  /\ present = {"CPI"}
  /\ last = [n \in UserNames |-> [id \in StationIds |-> NoInput]]
  /\ other = NoOther
  /\ runlog = <<>>
  /\ lost = [n \in UserNames |-> NoLoss(FALSE)]
  /\ twin = TwinIdle(store)
  /\ decoded = NoDecoded
  /\ hist = NoHist(FALSE)
  /\ InitLocals

NextRun ==
  \/ Next
  \/ FetchMalformed
  \/ Throw

SpecRun == InitRun /\ [][NextRun]_vars

\* every await of the run settles: the request returns or fails, and the
\* continuation runs
SpecRunFair == SpecRun /\ WF_vars(NextRun)

\* ------------------------------------------------ consecutive cycles of one account
\* one account whose cycles with a failed cache write are recorded in lost
InitRetry ==
  /\ USERS = <<CALPINE>>
  /\ run = 0
  /\ pc = "idle"
  /\ ui = 0
  /\ anyOffline = FALSE
  /\ details = <<>>
  /\ \E e \in {Absent, Flat(TRUE, <<"wind">>)} :
       store = [n \in UserNames |->
                  IF n = "CALPINE" THEN [EmptyCache EXCEPT !["401"] = e] ELSE EmptyCache]
  /\ present = {"CALPINE"}
  /\ last = [n \in UserNames |-> [id \in StationIds |-> NoInput]]
  /\ other = NoOther
  /\ runlog = <<>>
  /\ lost = [n \in UserNames |-> NoLoss(n = "CALPINE")]
  /\ twin = TwinIdle(store)
  /\ decoded = NoDecoded
  /\ hist = NoHist(FALSE)
  /\ InitLocals

SpecRetry == InitRetry /\ [][Next]_vars

\* ------------------------------------------------ a station over the cycles
\* an account of one station whose cycles are recorded in hist
InitWatch ==
  /\ USERS = <<CALPINE>>
  /\ run = 0
  /\ pc = "idle"
  /\ ui = 0
  /\ anyOffline = FALSE
  /\ details = <<>>
  /\ \E e \in {Absent, Flat(TRUE, <<>>)} :
       store = [n \in UserNames |->
                  IF n = "CALPINE" THEN [EmptyCache EXCEPT !["401"] = e] ELSE EmptyCache]
  /\ present = {"CALPINE"}
  /\ last = [n \in UserNames |-> [id \in StationIds |-> NoInput]]
  /\ other = NoOther
  /\ runlog = <<>>
  /\ lost = [n \in UserNames |-> NoLoss(FALSE)]
  /\ twin = TwinIdle(store)
  /\ decoded = NoDecoded
  /\ hist = NoHist(TRUE)
  /\ InitLocals

SpecWatch == InitWatch /\ [][Next]_vars

\* ------------------------------------------------ a second invocation
\* Nothing in index.js serialises invocations of the handler: a second one runs
\* the same checkAll on the same cache objects.  Its cycle is kept in the record
\* other; its steps are the ones that read the cache, evaluate a station and
\* write the cache.
\* processUser 1) and 2) of the second invocation, for its next account; an
\* account whose list fetch fails is left without touching the cache
OtherLoad ==
  /\ other.pc = "idle"
  /\ LET k == IF other.ui < Len(USERS) THEN other.ui + 1 ELSE 1
         c(ok) == IF ok THEN loadCacheFor(USERS[k].name) ELSE EmptyCache
     IN \E list \in StationLists[USERS[k].name], ok \in BOOLEAN :
          other' = [pc |-> "loaded", ui |-> k, stationsData |-> list,
                    cache |-> c(ok), newCache |-> c(ok), si |-> 1, alerts |-> <<>>]
  /\ UNCHANGED << USERS, run, pc, ui, anyOffline, details, store, stationsData, cache,
                  newCache, si, healthyCount, offlineCount, sensorFailureCounts, ret,
                  alerts, seen, io, metrics, last, runlog, lost, present, twin, decoded, hist >>

\* processUser 3) of the second invocation: one station of its list
OtherStation ==
  /\ other.pc = "loaded"
  /\ other.si <= Len(other.stationsData)
  /\ LET station == other.stationsData[other.si]
         id      == station.station_id
     IN \E d \in Diagnostics[id] :
          LET r == Evaluate(USERS[other.ui], id, station.state # 1, d.statuses, other.cache[id])
          IN other' = [other EXCEPT !.newCache = [@ EXCEPT ![id] = r.entry],
                                    !.alerts = @ \o r.posts,
                                    !.si = @ + 1]
  /\ UNCHANGED << USERS, run, pc, ui, anyOffline, details, store, stationsData, cache,
                  newCache, si, healthyCount, offlineCount, sensorFailureCounts, ret,
                  alerts, seen, io, metrics, last, runlog, lost, present, twin, decoded, hist >>

\* processUser 4) of the second invocation: its cache write; what the entries
\* of the written object were evaluated from is not recorded in last
OtherSave ==
  /\ other.pc = "loaded"
  /\ other.si > Len(other.stationsData)
  /\ \E ok \in BOOLEAN :
       IF ok
         THEN /\ store' = [store EXCEPT ![USERS[other.ui].name] = other.newCache]
              /\ present' = present \cup {USERS[other.ui].name}
              /\ last' = [last EXCEPT ![USERS[other.ui].name] = [id \in StationIds |-> NoInput]]
         ELSE UNCHANGED << store, last, present >>
  /\ twin' = [twin EXCEPT !.store = store']
  /\ other' = [NoOther EXCEPT !.ui = other.ui]
  /\ UNCHANGED << USERS, run, pc, ui, anyOffline, details, stationsData, cache,
                  newCache, si, healthyCount, offlineCount, sensorFailureCounts, ret,
                  alerts, seen, io, metrics, runlog, lost, decoded, hist >>

InitOverlap ==
  /\ USERS = <<MOSS>>
  /\ run = 0
  /\ pc = "idle"
  /\ ui = 0
  /\ anyOffline = FALSE
  /\ details = <<>>
  /\ \E c \in InitCaches["301"] :
       /\ store = [n \in UserNames |-> IF n = "MOSS" THEN c ELSE EmptyCache]
       /\ present = IF c = EmptyCache THEN {} ELSE {"MOSS"}
  /\ last = [n \in UserNames |-> [id \in StationIds |-> NoInput]]
  /\ other = NoOther
  /\ runlog = <<>>
  /\ lost = [n \in UserNames |-> NoLoss(FALSE)]
  /\ twin = TwinIdle(store)
  /\ decoded = NoDecoded
  /\ hist = NoHist(FALSE)
  /\ InitLocals

NextOverlap ==
  \/ Next
  \/ OtherLoad
  \/ OtherStation
  \/ OtherSave

SpecOverlap == InitOverlap /\ [][NextOverlap]_vars

\* ------------------------------------------------- one station, taken alone
\* processDevices and the evaluation of the loop body applied to one station of
\* the account: any diagnostics body of the station, any reported state, the
\* entry the cache object holds for it.
DecodeStation ==
  /\ pc = "idle"
  /\ ~decoded.set
  /\ \E id \in {"101", "201"}, st \in StationStates :
       \E devices \in DeviceLists(id) :
         LET u         == USERS[1]
             prevEntry == loadCacheFor(u.name)[id]
             isOffline == st # 1
             statuses  == processDevices(devices)
             r         == Evaluate(u, id, isOffline, statuses, prevEntry)
         IN /\ ~EvaluateThrows(isOffline, statuses, prevEntry)
            /\ decoded' = [set |-> TRUE, alertsOn |-> u.alertsOn, id |-> id, state |-> st,
                           devices |-> devices, prevEntry |-> prevEntry,
                           statuses |-> statuses, posts |-> r.posts, entry |-> r.entry,
                           branch |-> r.branch]
  /\ UNCHANGED << USERS, run, pc, ui, anyOffline, details, store, stationsData, cache,
                  newCache, si, healthyCount, offlineCount, sensorFailureCounts, ret,
                  alerts, seen, io, metrics, last, other, runlog, lost, present, twin, hist >>

SpecDecode == Init /\ [][DecodeStation]_vars

TypeOK ==
  /\ pc \in {"idle", "fetch", "load", "loop", "metrics", "return"}
  /\ run \in 0..MaxRuns
  /\ si \in 0..(Len(stationsData) + 1)

\* ------------------------------------------------------- claim vocabulary
\* the account of the cycle in progress
InCycle == ui \in 1..Len(USERS)

AlertsOn == InCycle /\ USERS[ui].alertsOn

\* the posts of kind kind attempted for station id in the current cycle
AlertsFor(id, kind) == SelectSeq(alerts, LAMBDA a : a.id = id /\ a.kind = kind)

AnyAlertFor(id) == \E k \in 1..Len(alerts) : alerts[k].id = id

\* the sensor labels named by the posts of kind kind for station id
Announced(id, kind) ==
  UNION { Range(alerts[k].sensors) : k \in {j \in 1..Len(alerts) : alerts[j].id = id /\ alerts[j].kind = kind} }

\* the station-level failure set of a diagnostics result
FailSet(statuses) ==
  UNION { Range(statuses[k].failures) : k \in {j \in 1..Len(statuses) : statuses[j].sensorStatus = "failure"} }

\* the snapshot a cache value stands for: its offline flag and its failure set;
\* the legacy string stands for offline = true with no failures
SnapOffline(entry) ==
  entry.shape = "legacy" \/ (entry.shape \in {"flat", "nested"} /\ entry.offline)

\* a cache value in one of the object shapes (not the legacy string)
Structured(entry) == entry.shape # "legacy"

SnapFailures(entry) ==
  CASE entry.shape = "flat"   -> Range(entry.failures)
    [] entry.shape = "nested" -> UNION { Range(entry.devs[k].failures) : k \in 1..Len(entry.devs) }
    [] OTHER                  -> {}

Snapshot(entry) == [offline |-> SnapOffline(entry), failures |-> SnapFailures(entry)]

\* every external call of the cycle so far succeeded
CallsOk ==
  /\ io.list = "ok"
  /\ io.load = "ok"
  /\ io.save # "failed"
  /\ io.metrics # "failed"
  /\ \A k \in 1..Len(seen) : seen[k].diagOk
  /\ \A k \in 1..Len(alerts) : alerts[k].ok

\* the station evaluated at position k repeats the input of its last saved evaluation
Repeats(k) ==
  /\ pc = "loop"
  /\ io.load = "ok"
  /\ last[USERS[ui].name][seen[k].id].set
  /\ last[USERS[ui].name][seen[k].id].state = seen[k].state
  /\ last[USERS[ui].name][seen[k].id].statuses = seen[k].statuses

\* ------------------------------------------------------------------ claims
\* C1: with alerts enabled and every external call succeeding, an offline alert
\* is sent for a station in a cycle exactly when the station is reported with
\* state != 1 and its snapshot entry (absent or an object, as a cycle leaves it)
\* is not offline, and then once; a station evaluated offline by the previous
\* saved cycle and offline again gets none.
C1_OfflineAlertOncePerTransition ==
  (AlertsOn /\ CallsOk) =>
    \A k \in 1..Len(seen) :
      LET id == seen[k].id
      IN /\ Structured(cache[id]) =>
              Len(AlertsFor(id, "offline")) =
                (IF seen[k].state # 1 /\ ~SnapOffline(cache[id]) THEN 1 ELSE 0)
         /\ (pc = "loop" /\ last[USERS[ui].name][id].set
               /\ last[USERS[ui].name][id].state # 1 /\ seen[k].state # 1)
              => Len(AlertsFor(id, "offline")) = 0

C1_Witness ==
  /\ AlertsOn /\ CallsOk /\ pc = "loop" /\ run >= 1 /\ Len(seen) = 1
  /\ last[USERS[ui].name][seen[1].id].set
  /\ last[USERS[ui].name][seen[1].id].state # 1
  /\ seen[1].state # 1
  /\ alerts = <<>>

\* C2: a station whose snapshot (an object entry) says offline and that is
\* reported online gets, with alerts enabled, exactly one recovery alert in that
\* cycle, whatever its current sensor failures are.
C2_RecoveredWhateverFailures ==
  AlertsOn =>
    \A k \in 1..Len(seen) :
      (Structured(cache[seen[k].id]) /\ SnapOffline(cache[seen[k].id]) /\ seen[k].state = 1)
        => /\ seen[k].branch = "B"
           /\ Len(AlertsFor(seen[k].id, "recovery")) = 1

\* C3 as stated: online, not offline in the snapshot, at least one failing
\* sensor: the sensors announced are the current failure set minus the snapshot's,
\* and when that difference is empty no alert is sent and the snapshot's failure
\* set is unchanged.
C3_AsStated ==
  AlertsOn =>
    \A k \in 1..Len(seen) :
      LET id  == seen[k].id
          cur == FailSet(seen[k].statuses)
          old == SnapFailures(cache[id])
      IN (seen[k].state = 1 /\ ~SnapOffline(cache[id]) /\ cur # {})
           => /\ Announced(id, "sensor") = cur \ old
              /\ (cur \ old = {}) =>
                   /\ ~AnyAlertFor(id)
                   /\ SnapFailures(newCache[id]) = old

\* C3 amended: with alerts enabled the sensors announced are the current failure
\* set minus the snapshot's; when that difference is empty no alert is sent and
\* the snapshot's failure set becomes the current set, which leaves it unchanged
\* exactly when the same sensors fail as in the snapshot.
C3_NewSensorsOnly ==
  \A k \in 1..Len(seen) :
    LET id  == seen[k].id
        cur == FailSet(seen[k].statuses)
        old == SnapFailures(cache[id])
    IN (seen[k].state = 1 /\ ~SnapOffline(cache[id]) /\ cur # {})
         => /\ AlertsOn => Announced(id, "sensor") = cur \ old
            /\ (cur \ old = {}) => ~AnyAlertFor(id)
            /\ SnapFailures(newCache[id]) = cur
            /\ ~SnapOffline(newCache[id])
            /\ (cur = old) => Snapshot(newCache[id]) = Snapshot(cache[id])

C3_Witness ==
  /\ AlertsOn /\ Len(seen) = 1 /\ seen[1].state = 1
  /\ ~SnapOffline(cache[seen[1].id])
  /\ SnapFailures(cache[seen[1].id]) = {"wind"}
  /\ FailSet(seen[1].statuses) = {"wind", "precip"}
  /\ Announced(seen[1].id, "sensor") = {"precip"}

\* C4: a station reported with state != 1 takes an offline branch: no
\* sensor-failure alert and no recovery alert is sent for it, whatever its
\* diagnostics, and its snapshot entry is written with offline = true.
C4_OfflinePrecedence ==
  \A k \in 1..Len(seen) :
    seen[k].state # 1 =>
      /\ seen[k].branch \in {"D", "E"}
      /\ Len(AlertsFor(seen[k].id, "sensor")) = 0
      /\ Len(AlertsFor(seen[k].id, "recovery")) = 0
      /\ newCache[seen[k].id].shape = "nested"
      /\ newCache[seen[k].id].offline = TRUE

C4_Witness ==
  /\ Len(seen) = 1 /\ seen[1].state # 1
  /\ FailSet(seen[1].statuses) # {}
  /\ newCache[seen[1].id].offline

\* C5: a station evaluated again with the state and diagnostics of its last
\* saved evaluation, against the snapshot that evaluation wrote, gets no alert
\* and the same snapshot (offline flag and failure set) is written again.
C5_Idempotent ==
  \A k \in 1..Len(seen) :
    Repeats(k) =>
      /\ ~AnyAlertFor(seen[k].id)
      /\ Snapshot(newCache[seen[k].id]) = Snapshot(cache[seen[k].id])

C5_Witness ==
  /\ Len(seen) = 1 /\ Repeats(1) /\ AlertsOn
  /\ seen[1].state = 1
  /\ FailSet(seen[1].statuses) # {}
  /\ alerts = <<>>

\* C6: after a Recovered transition the station's key is absent from the new
\* cache image (offline = false, no failures), also when the diagnostics of the
\* cycle could not be fetched, and a successful write persists that.
C6_RecoveryClears ==
  \A k \in 1..Len(seen) :
    seen[k].branch = "B" =>
      /\ newCache[seen[k].id] = Absent
      /\ Snapshot(newCache[seen[k].id]) = [offline |-> FALSE, failures |-> {}]
      /\ io.save = "ok" => store[USERS[ui].name][seen[k].id] = Absent

C6_Witness ==
  /\ Len(seen) = 1 /\ seen[1].branch = "B" /\ ~seen[1].diagOk
  /\ SnapFailures(cache[seen[1].id]) # {}
  /\ io.save = "ok"

\* C7: a snapshot entry that is the legacy string "offline" counts as offline:
\* still reported offline, no new offline alert is sent; reported online and
\* healthy, the station is classified Recovered.
C7_LegacyIsOffline ==
  \A k \in 1..Len(seen) :
    cache[seen[k].id] = Legacy =>
      /\ seen[k].state # 1 => Len(AlertsFor(seen[k].id, "offline")) = 0
      /\ (seen[k].state = 1 /\ FailSet(seen[k].statuses) = {}) => seen[k].branch = "B"

\* C8: a station recorded offline with failure set F that is reported online
\* with a current failure set contained in F gets no sensor-failure alert.
C8_OfflineFailuresNotReannounced ==
  \A k \in 1..Len(seen) :
    (SnapOffline(cache[seen[k].id]) /\ seen[k].state = 1
       /\ FailSet(seen[k].statuses) \subseteq SnapFailures(cache[seen[k].id]))
      => Len(AlertsFor(seen[k].id, "sensor")) = 0

C8_Witness ==
  /\ AlertsOn /\ Len(seen) = 1 /\ seen[1].state = 1
  /\ cache[seen[1].id].shape = "nested"
  /\ SnapOffline(cache[seen[1].id])
  /\ FailSet(seen[1].statuses) = {"wind", "precip"}
  /\ SnapFailures(cache[seen[1].id]) = {"wind", "precip"}
  /\ seen[1].branch = "A"

\* C9: a station not offline in the snapshot and reported with state != 1 is
\* NewlyOffline: with alerts enabled one offline alert is sent, it carries the
\* full current failure set, and the snapshot entry becomes offline = true with
\* exactly that failure set.
C9_NewlyOfflineFullSet ==
  \A k \in 1..Len(seen) :
    LET id == seen[k].id
    IN (~SnapOffline(cache[id]) /\ seen[k].state # 1) =>
         /\ seen[k].branch = "D"
         /\ AlertsOn => Len(AlertsFor(id, "offline")) = 1
         /\ \A j \in 1..Len(alerts) :
              (alerts[j].id = id /\ alerts[j].kind = "offline")
                => Range(alerts[j].sensors) = FailSet(seen[k].statuses)
         /\ SnapOffline(newCache[id])
         /\ SnapFailures(newCache[id]) = FailSet(seen[k].statuses)

C9_Witness ==
  /\ AlertsOn /\ Len(seen) = 1 /\ seen[1].state # 1
  /\ ~SnapOffline(cache[seen[1].id])
  /\ SnapFailures(cache[seen[1].id]) = {"wind"}
  /\ FailSet(seen[1].statuses) = {"wind", "precip"}
  /\ Len(alerts) = 1 /\ alerts[1].kind = "offline"

\* C10: a station offline in the snapshot (an object entry with offline = true)
\* and still reported with state != 1 is StillOffline: no alert is sent and the
\* snapshot's failure set is replaced by the current cycle's failure set.
C10_StillOfflineRefreshes ==
  \A k \in 1..Len(seen) :
    LET id == seen[k].id
    IN (Structured(cache[id]) /\ SnapOffline(cache[id]) /\ seen[k].state # 1) =>
         /\ seen[k].branch = "E"
         /\ ~AnyAlertFor(id)
         /\ SnapOffline(newCache[id])
         /\ SnapFailures(newCache[id]) = FailSet(seen[k].statuses)

C10_Witness ==
  /\ Len(seen) = 1 /\ seen[1].state # 1
  /\ cache[seen[1].id].shape = "nested"
  /\ SnapOffline(cache[seen[1].id])
  /\ SnapFailures(cache[seen[1].id]) = {"wind", "precip"}
  /\ FailSet(seen[1].statuses) = {"wind"}
  /\ SnapFailures(newCache[seen[1].id]) = {"wind"}

\* C11: a station with no entry in the snapshot read by the cycle is evaluated
\* as previously online with no failures: reported online with failing sensors
\* it takes the sensor-failure branch and, with alerts enabled, every current
\* failing sensor is announced as new; reported with state != 1 it is newly
\* offline, with one offline alert when alerts are enabled; reported online and
\* healthy it gets no alert.
C11_AbsentIsOnlineNoFailures ==
  \A k \in 1..Len(seen) :
    LET id  == seen[k].id
        cur == FailSet(seen[k].statuses)
    IN cache[id] = Absent =>
         /\ (seen[k].state = 1 /\ cur # {}) =>
              /\ seen[k].branch = "A"
              /\ AlertsOn => Announced(id, "sensor") = cur
              /\ Len(AlertsFor(id, "offline")) = 0
              /\ Len(AlertsFor(id, "recovery")) = 0
         /\ seen[k].state # 1 =>
              /\ seen[k].branch = "D"
              /\ AlertsOn => Len(AlertsFor(id, "offline")) = 1
              /\ Len(AlertsFor(id, "sensor")) = 0
              /\ Len(AlertsFor(id, "recovery")) = 0
         /\ (seen[k].state = 1 /\ cur = {}) =>
              /\ seen[k].branch = "C"
              /\ ~AnyAlertFor(id)

C11_Witness ==
  /\ AlertsOn /\ Len(seen) = 1 /\ seen[1].state = 1
  /\ io.load = "ok"
  /\ cache[seen[1].id] = Absent
  /\ FailSet(seen[1].statuses) = {"wind", "precip"}
  /\ Announced(seen[1].id, "sensor") = {"wind", "precip"}
  /\ Len(AlertsFor(seen[1].id, "sensor")) = 2

\* C12: no two poll cycles of the same account overlap: while a cycle is between
\* its cache read and its cache write, no other cycle of that account has read
\* the cache without having written it yet.
C12_SingleFlight ==
  ~(/\ InCycle /\ pc = "loop"
    /\ other.pc = "loaded"
    /\ USERS[other.ui].name = USERS[ui].name)

\* the harm of an overlap: both cycles have posted the offline alert of the same
\* station from the same snapshot entry
C12_BothAlerted ==
  /\ InCycle /\ pc = "loop" /\ io.load = "ok"
  /\ other.pc = "loaded"
  /\ USERS[other.ui].name = USERS[ui].name
  /\ \E j \in 1..Len(alerts), k \in 1..Len(other.alerts) :
       /\ alerts[j].kind = "offline" /\ other.alerts[k].kind = "offline"
       /\ alerts[j].id = other.alerts[k].id
       /\ other.cache[alerts[j].id] = cache[alerts[j].id]
       /\ store[USERS[ui].name][alerts[j].id] = cache[alerts[j].id]

\* C13: no error is fatal to the whole run: when a run has ended, every
\* configured account has been processed and none of the processUser calls
\* ended with an exception, whatever fetch failed or response body or cache
\* content was malformed.
C13_NoErrorIsFatal ==
  (pc = "idle" /\ runlog # <<>>) =>
    /\ Len(runlog) = Len(USERS)
    /\ \A k \in 1..Len(runlog) : ~runlog[k].threw

\* C14: a malformed snapshot entry never aborts the account's cycle: no
\* processUser call that obtained its station list ends with an exception; it
\* evaluates every listed station and writes the cache.
C14_MalformedEntryTolerated ==
  \A k \in 1..Len(runlog) :
    runlog[k].list = "ok" =>
      /\ ~runlog[k].threw
      /\ runlog[k].saved

\* C15: a failed cache write changes neither the stored cache object nor the
\* alerts already posted, and the metrics are attempted after it; the stored
\* snapshot being the one the cycle read, a later cycle that reads it and
\* evaluates the same station states and diagnostics posts the same alerts again.
C15_FailedWriteRealerts ==
  /\ [](InCycle =>
         /\ (io.save = "failed" /\ io.load = "ok") => store[USERS[ui].name] = cache
         /\ (io.save = "failed" /\ pc = "return") =>
              /\ io.metrics # "none"
              /\ io.metrics = "ok" => metrics # <<>>
         /\ (/\ pc = "loop" /\ si > Len(stationsData) /\ io.load = "ok"
             /\ lost[USERS[ui].name].set /\ lost[USERS[ui].name].loadOk
             /\ Inputs(seen) = lost[USERS[ui].name].inputs)
              => Posts(alerts) = lost[USERS[ui].name].posts)
  /\ [][(pc = "loop" /\ pc' = "metrics" /\ io'.save = "failed")
          => (store' = store /\ alerts' = alerts)]_vars

C15_Witness ==
  /\ InCycle /\ pc = "loop" /\ si > Len(stationsData) /\ io.load = "ok"
  /\ lost[USERS[ui].name].set /\ lost[USERS[ui].name].loadOk
  /\ Len(seen) = 1
  /\ Inputs(seen) = lost[USERS[ui].name].inputs
  /\ Len(alerts) = 1
  /\ Posts(alerts) = lost[USERS[ui].name].posts

\* C16: a station whose diagnostics request fails, answers non-200 or has no
\* devices array is evaluated with an empty diagnostic set: no failing sensor,
\* no sensor-failure alert, online or offline by its state alone (offline
\* stations are counted and written offline), and the stations after it in the
\* list are still evaluated before the cache is written.
C16_DiagnosticsFailureIsEmpty ==
  /\ \A k \in 1..Len(seen) :
       ~seen[k].diagOk =>
         /\ seen[k].statuses = <<>>
         /\ Len(AlertsFor(seen[k].id, "sensor")) = 0
         /\ seen[k].state = 1 => seen[k].branch \in {"B", "C"}
         /\ seen[k].state # 1 =>
              /\ seen[k].branch \in {"D", "E"}
              /\ newCache[seen[k].id].offline
              /\ SnapFailures(newCache[seen[k].id]) = {}
  /\ InCycle => offlineCount = Cardinality({k \in 1..Len(seen) : seen[k].state # 1})
  /\ (InCycle /\ io.save # "none") =>
       /\ Len(seen) = Len(stationsData)
       /\ \A k \in 1..Len(seen) : seen[k].id = stationsData[k].station_id

C16_Witness ==
  /\ InCycle /\ io.save = "ok" /\ Len(seen) = 2
  /\ ~seen[1].diagOk /\ seen[1].state # 1 /\ seen[1].branch = "D"
  /\ seen[2].diagOk /\ seen[2].state # 1
  /\ Len(alerts) = 2
  /\ offlineCount = 2

\* C17: a failed station list fetch aborts the processing of that account only:
\* the call returns 0 without reading the cache, evaluating a station, posting,
\* writing or sending metrics; the next account is processed after it; and a
\* run whose accounts all returned 0 reports no offline station, also when a
\* list fetch failed.
C17_ListFailureIsZero ==
  /\ (InCycle /\ io.list = "failed") =>
       /\ pc = "return" /\ ret = 0
       /\ seen = <<>> /\ alerts = <<>> /\ metrics = <<>>
       /\ io.load = "none" /\ io.save = "none" /\ io.metrics = "none"
  /\ \A k \in 1..Len(runlog) :
       runlog[k].list = "failed" =>
         /\ runlog[k].ret = 0
         /\ ~runlog[k].threw
         /\ k < Len(USERS) => (Len(runlog) > k \/ ui = k + 1)
  /\ (/\ pc = "idle" /\ Len(runlog) = Len(USERS)
      /\ \A k \in 1..Len(runlog) : ~runlog[k].threw /\ runlog[k].ret = 0)
       => (~anyOffline /\ details = <<>>)

C17_Witness ==
  /\ pc = "idle" /\ Len(runlog) = 2
  /\ runlog[1].list = "failed"
  /\ runlog[2].list = "ok" /\ runlog[2].done = 1 /\ runlog[2].ret = 0
  /\ ~anyOffline

\* C18: a cycle whose cache read failed runs with an empty snapshot map: every
\* listed station is evaluated as one without an entry, so every station
\* reported offline is newly offline and, with alerts enabled, gets its offline
\* alert, and every failing sensor of an online station is announced as new; a
\* cache object that does not exist gives the empty map too, through a read
\* that succeeds.
C18_FailedReadIsEmptyMap ==
  InCycle =>
    /\ io.load = "failed" =>
         /\ cache = EmptyCache
         /\ \A k \in 1..Len(seen) :
              LET id  == seen[k].id
                  cur == FailSet(seen[k].statuses)
              IN /\ seen[k].state # 1 =>
                      /\ seen[k].branch = "D"
                      /\ AlertsOn => Len(AlertsFor(id, "offline")) = 1
                 /\ (seen[k].state = 1 /\ cur # {}) =>
                      /\ seen[k].branch = "A"
                      /\ AlertsOn => Announced(id, "sensor") = cur
                 /\ (seen[k].state = 1 /\ cur = {}) => ~AnyAlertFor(id)
    /\ (io.load = "ok" /\ io.save # "ok" /\ USERS[ui].name \notin present) =>
         cache = EmptyCache

C18_Witness ==
  /\ AlertsOn /\ io.load = "failed" /\ Len(seen) = 1
  /\ USERS[ui].name \in present
  /\ SnapOffline(store[USERS[ui].name][seen[1].id])
  /\ seen[1].state # 1
  /\ Len(AlertsFor(seen[1].id, "offline")) = 1

\* the first cycle of an account: the cache object does not exist and the read succeeds
C18_MissingObjectRead ==
  /\ InCycle /\ pc = "loop" /\ io.load = "ok"
  /\ USERS[ui].name \notin present
  /\ cache = EmptyCache

\* C19: a failed alert delivery neither aborts the run nor blocks what follows:
\* the station of the failed post still gets every post due to it (one per
\* failing device carrying a sensor new against the snapshot), the stations
\* after it are evaluated, and the cache write and the metrics are attempted.
C19_FailedAlertBlocksNothing ==
  InCycle =>
    \A j \in 1..Len(alerts) :
      ~alerts[j].ok =>
        /\ \A k \in 1..Len(seen) :
             (seen[k].id = alerts[j].id /\ seen[k].branch = "A") =>
               Len(AlertsFor(seen[k].id, "sensor")) =
                 Cardinality({ d \in 1..Len(seen[k].statuses) :
                                 /\ seen[k].statuses[d].sensorStatus = "failure"
                                 /\ Range(seen[k].statuses[d].failures)
                                      \ SnapFailures(cache[seen[k].id]) # {} })
        /\ pc \in {"metrics", "return"} =>
             /\ Len(seen) = Len(stationsData)
             /\ io.save # "none"
        /\ pc = "return" => io.metrics # "none"

C19_Witness ==
  /\ InCycle /\ pc = "return" /\ Len(seen) = 2
  /\ Len(alerts) = 3
  /\ ~alerts[1].ok /\ alerts[1].kind = "sensor"
  /\ alerts[2].kind = "sensor" /\ alerts[2].id = alerts[1].id
  /\ alerts[3].kind = "offline" /\ alerts[3].id # alerts[1].id
  /\ io.save = "ok" /\ io.metrics = "ok"

\* C20: for an account with alerts disabled (alertsOn false or not set) no
\* alert of any kind is posted, and the cache objects, the cache image of the
\* cycle, the counts, the emitted metrics and the returned offline count are at
\* every step those of the same run with the alerts switch negated, which posts
\* alerts only where the account itself posts none.
C20_AlertsSwitchOnlyGatesPosts ==
  /\ (InCycle /\ ~USERS[ui].alertsOn) => alerts = <<>>
  /\ (InCycle /\ USERS[ui].alertsOn) => twin.sent = 0
  /\ twin.store = store
  /\ twin.cache = cache
  /\ twin.newCache = newCache
  /\ twin.healthy = healthyCount
  /\ twin.offline = offlineCount
  /\ twin.counts = sensorFailureCounts
  /\ twin.metrics = metrics
  /\ twin.ret = ret

C20_Witness ==
  /\ InCycle /\ USERS[ui].name = "DEV" /\ pc = "return"
  /\ alerts = <<>>
  /\ twin.sent = 2
  /\ io.save = "ok" /\ io.metrics = "ok"
  /\ ret = 0 /\ Len(seen) = 1
  /\ store["DEV"][seen[1].id].shape = "nested"

\* the same with alertsOn false in the USERS table
C20_WitnessFalse ==
  /\ InCycle /\ USERS[ui].name = "PROLOGIS" /\ pc = "return"
  /\ alerts = <<>>
  /\ twin.sent = 1
  /\ io.save = "ok" /\ ret = 1

\* C21: the station-level failure set is deduplicated: the sensor list of an
\* offline alert names each failing sensor label once, also when the label
\* fails on two devices of the station.
C21_FailureSetDeduplicated ==
  \A j \in 1..Len(alerts) :
    alerts[j].kind = "offline" =>
      Len(alerts[j].sensors) = Cardinality(Range(alerts[j].sensors))

\* the value of the line of the delivered batch for metric name
MetricValue(name) ==
  LET k == CHOOSE j \in 1..Len(metrics) : metrics[j].metric = name
  IN metrics[k].value

\* the number of failure entries with label key on the failure-classified
\* devices of a diagnostics result
FailureEntries(statuses, key) ==
  Cardinality({ p \in (1..Len(statuses)) \X (1..2) :
                  /\ statuses[p[1]].sensorStatus = "failure"
                  /\ p[2] <= Len(statuses[p[1]].failures)
                  /\ statuses[p[1]].failures[p[2]] = key })

\* C22 as stated: the per-sensor failure count of the batch is, for each
\* monitored label, the number of failure entries with that label over the
\* stations of the cycle, online or offline.
C22_AsStated ==
  (InCycle /\ io.metrics = "ok") =>
    \A key \in Range(SENSOR_KEYS) :
      MetricValue(key) = SeqSum([k \in 1..Len(seen) |-> FailureEntries(seen[k].statuses, key)])

\* C22 amended: the per-sensor failure count of the batch is, for each monitored
\* label, the number of failure entries with that label over the failure-
\* classified devices of the stations of the cycle reported with state != 1;
\* the failures of an online station are not counted.
C22_OfflineStationsOnly ==
  (InCycle /\ io.metrics = "ok") =>
    \A key \in Range(SENSOR_KEYS) :
      MetricValue(key) =
        SeqSum([k \in 1..Len(seen) |->
                  IF seen[k].state # 1 THEN FailureEntries(seen[k].statuses, key) ELSE 0])

C22_Witness ==
  /\ InCycle /\ io.metrics = "ok" /\ Len(seen) = 2
  /\ seen[1].state # 1 /\ seen[2].state # 1
  /\ FailureEntries(seen[1].statuses, "wind") = 2
  /\ MetricValue("wind") = 2
  /\ MetricValue("precip") = 1

\* the devices of a diagnostics body whose serial number has no token "HB"
WithoutHB(devices) ==
  SelectSeq(devices, LAMBDA dv : \A k \in 1..Len(dv.serial_number) : dv.serial_number[k] # "HB")

\* C23: a device whose serial number contains "HB" never contributes to the
\* station's result: no device status, no failure, no alert and no snapshot key
\* bears its serial, and statuses, alerts and snapshot entry are those of the
\* same body without the device, whatever its status bitmask is; every other
\* device yields exactly one device status, in order, whose device type is the
\* text before the first "-" of its serial.
C23_HeartbeatFiltered ==
  decoded.set =>
    LET rest     == WithoutHB(decoded.devices)
        u        == [name |-> USERS[1].name, alertsOn |-> decoded.alertsOn]
        isOff    == decoded.state # 1
        bare     == processDevices(rest)
    IN /\ Len(decoded.statuses) = Len(rest)
       /\ \A k \in 1..Len(rest) :
            /\ decoded.statuses[k].serial = rest[k].serial_number
            /\ decoded.statuses[k].rawStatus = rest[k].sensor_status
            /\ decoded.statuses[k].deviceType = <<rest[k].serial_number[1]>>
            /\ rest[k].serial_number[2] = "-"
       /\ decoded.statuses = bare
       /\ decoded.posts = Evaluate(u, decoded.id, isOff, bare, decoded.prevEntry).posts
       /\ decoded.entry = Evaluate(u, decoded.id, isOff, bare, decoded.prevEntry).entry
       /\ \A k \in 1..Len(decoded.entry.devs) : decoded.entry.devs[k].serial # HB3

C23_Witness ==
  /\ decoded.set
  /\ Len(decoded.devices) = 3
  /\ decoded.devices[3].serial_number = HB3
  /\ decoded.devices[3].sensor_status = RawMax
  /\ Len(decoded.statuses) = 2
  /\ decoded.posts # <<>>

\* the flags of severity type of the device type whose bit is set in rawStatus
\* (every flag is one bit)
SetFlags(rawStatus, deviceType, type) ==
  LET fl == FlagList(deviceType)
  IN { k \in 1..Len(fl) : fl[k].type = type /\ (rawStatus \div fl[k].flag) % 2 = 1 }

\* C24: for every device status the decoder produces, the failures list is
\* non-empty only if the classification is "failure" (a "warning" or "ok"
\* device has an empty list), and every listed failure is the label of an
\* error-severity flag of the device's type whose bit is set in the raw status.
C24_FailuresOnlyForFailure ==
  decoded.set =>
    \A k \in 1..Len(decoded.statuses) :
      LET ds == decoded.statuses[k]
      IN /\ ds.sensorStatus \in {"failure", "warning", "ok"}
         /\ ds.failures # <<>> => ds.sensorStatus = "failure"
         /\ \A j \in 1..Len(ds.failures) :
              \E f \in SetFlags(ds.rawStatus, ds.deviceType, "error") :
                FlagList(ds.deviceType)[f].label = ds.failures[j]

C24_Witness ==
  /\ decoded.set
  /\ Len(decoded.statuses) = 2
  /\ decoded.statuses[1].deviceType = <<"ST">>
  /\ decoded.statuses[1].rawStatus = 2
  /\ decoded.statuses[1].sensorStatus = "warning"
  /\ decoded.statuses[1].failures = <<>>
  /\ decoded.statuses[2].rawStatus = 3
  /\ decoded.statuses[2].failures = <<"wind", "precip">>

C26_AccountsIndependent ==
  /\ [](InCycle =>
         /\ \A j \in 1..Len(alerts) :
              /\ alerts[j].user = USERS[ui].name
              /\ \E k \in 1..Len(stationsData) : stationsData[k].station_id = alerts[j].id
         /\ pc \in {"fetch", "load"} =>
              /\ healthyCount = 0 /\ offlineCount = 0
              /\ sensorFailureCounts = ZeroCounts
              /\ alerts = <<>> /\ seen = <<>>
         /\ (pc = "loop" /\ si = 1 /\ io.load = "ok") =>
              cache = IF USERS[ui].name \in present THEN store[USERS[ui].name] ELSE EmptyCache)
  /\ [][\A n \in UserNames :
          (~InCycle \/ n # USERS[ui].name) =>
            (store'[n] = store[n] /\ (n \in present' <=> n \in present))]_vars

C26_Witness ==
  /\ ui = 2 /\ pc = "metrics" /\ io.load = "ok" /\ io.save = "ok"
  /\ alerts # <<>>
  /\ store[USERS[1].name]["201"].shape = "nested"
  /\ store[USERS[2].name]["301"].shape = "nested"
  /\ store[USERS[2].name]["201"].shape = "absent"
  /\ Len(runlog) = 1 /\ runlog[1].ret > 0

\* C27: for each account whose station list fetch succeeds the cache is written
\* exactly once per cycle, after every listed station has been processed and
\* every alert of the cycle has been attempted; the written image holds the
\* updated snapshot of every listed station (no key for a recovered one), and
\* the metrics are sent after the write attempt.
C27_WrittenOnceAfterLoop ==
  /\ [](
         /\ \A k \in 1..Len(runlog) : (runlog[k].list = "ok" => runlog[k].saved)
         /\ (InCycle /\ io.save # "none") =>
              /\ si > Len(stationsData)
              /\ Len(seen) = Len(stationsData)
         /\ (InCycle /\ io.metrics # "none") => io.save # "none"
         /\ (InCycle /\ pc = "metrics" /\ io.save = "ok") =>
              /\ store[USERS[ui].name] = newCache
              /\ \A k \in 1..Len(seen) :
                   LET e == newCache[seen[k].id]
                   IN IF seen[k].branch = "B" THEN e.shape = "absent"
                      ELSE /\ e.shape = "nested"
                           /\ e.offline = (seen[k].state # 1)
                           /\ Len(e.devs) = Len(seen[k].statuses))
  /\ [][(InCycle /\ io.save # "none")
          => (store' = store /\ (pc # "return" => alerts' = alerts))]_vars

\* the same for the cycles that end without an exception
C27_UnlessThrown ==
  /\ [](
         /\ \A k \in 1..Len(runlog) :
              ((runlog[k].list = "ok" /\ ~runlog[k].threw) => runlog[k].saved)
         /\ (InCycle /\ io.save # "none") =>
              /\ si > Len(stationsData)
              /\ Len(seen) = Len(stationsData)
         /\ (InCycle /\ io.metrics # "none") => io.save # "none"
         /\ (InCycle /\ pc = "metrics" /\ io.save = "ok") =>
              /\ store[USERS[ui].name] = newCache
              /\ \A k \in 1..Len(seen) :
                   LET e == newCache[seen[k].id]
                   IN IF seen[k].branch = "B" THEN e.shape = "absent"
                      ELSE /\ e.shape = "nested"
                           /\ e.offline = (seen[k].state # 1)
                           /\ Len(e.devs) = Len(seen[k].statuses))
  /\ [][(InCycle /\ io.save # "none")
          => (store' = store /\ (pc # "return" => alerts' = alerts))]_vars

\* the failure-classified devices of a diagnostics result, in order, that carry
\* a sensor the snapshot entry does not record
DevicesWithNew(statuses, prevEntry) ==
  SelectSeq(statuses,
            LAMBDA ds : /\ ds.sensorStatus = "failure"
                        /\ Range(ds.failures) \ SnapFailures(prevEntry) # {})

\* C28: for an online station with alerts enabled and at least one failing
\* sensor the snapshot does not record, one sensor-failure alert is posted per
\* failure-classified device carrying such a sensor, in device order, listing
\* the device's new sensors and no other; a device whose failing sensors are all
\* in the snapshot gets no alert.
C28_OneAlertPerDeviceWithNew ==
  (/\ decoded.set /\ decoded.state = 1 /\ decoded.alertsOn
   /\ FailSet(decoded.statuses) \ SnapFailures(decoded.prevEntry) # {}) =>
    LET dn == DevicesWithNew(decoded.statuses, decoded.prevEntry)
    IN /\ Len(decoded.posts) = Len(dn)
       /\ \A k \in 1..Len(dn) :
            /\ decoded.posts[k].kind = "sensor"
            /\ decoded.posts[k].id = decoded.id
            /\ decoded.posts[k].sensors =
                 SelectSeq(dn[k].failures, LAMBDA x : x \notin SnapFailures(decoded.prevEntry))

C28_Witness ==
  /\ decoded.set /\ decoded.state = 1 /\ decoded.alertsOn
  /\ decoded.prevEntry = Flat(FALSE, <<"wind">>)
  /\ Len(decoded.statuses) = 2
  /\ decoded.statuses[1].failures = <<"wind">>
  /\ decoded.statuses[2].failures = <<"wind", "precip">>
  /\ Len(decoded.posts) = 1
  /\ decoded.posts[1].sensors = <<"precip">>

\* C29: the previous failure set of the diff is the same for the two shapes of
\* a snapshot entry: the nested per-device entry written for a diagnostics
\* result and the flat entry {offline, failures} holding the same failures give
\* the set of all labels recorded, and so the same alerts for every diagnostics
\* result evaluated against them.
C29_FlatAndNestedAgree ==
  (decoded.set /\ decoded.entry.shape = "nested") =>
    LET nested == decoded.entry
        flat   == Flat(nested.offline, currentFailures(decoded.statuses))
        u      == [name |-> USERS[1].name, alertsOn |-> TRUE]
    IN /\ Range(oldFailures(nested)) = FailSet(decoded.statuses)
       /\ Range(oldFailures(flat)) = FailSet(decoded.statuses)
       /\ \A dl \in DeviceLists("201") :
            SensorFailurePosts(u, decoded.id, processDevices(dl), nested)
              = SensorFailurePosts(u, decoded.id, processDevices(dl), flat)

C29_Witness ==
  /\ decoded.set /\ decoded.entry.shape = "nested"
  /\ Len(decoded.entry.devs) = 2
  /\ decoded.entry.devs[1].failures = <<"wind">>
  /\ decoded.entry.devs[2].failures = <<"precip">>
  /\ Range(oldFailures(decoded.entry)) = {"wind", "precip"}

\* the lines of the batch that are not one of the four station and total lines
PerSensorLines ==
  SelectSeq(metrics,
            LAMBDA l : l.metric \notin {"healthy_count", "offline_count",
                                        "total_sensor_failure_count", "total_count"})

\* C30: in every metrics batch the total sensor failure count is the sum of the
\* per-sensor failure counts of the same batch, and the total station count is
\* the number of stations of the fetched list.
C30_TotalsAddUp ==
  (InCycle /\ io.metrics = "ok") =>
    /\ MetricValue("total_sensor_failure_count")
         = SeqSum([k \in 1..Len(PerSensorLines) |-> PerSensorLines[k].value])
    /\ Len(PerSensorLines) = Len(SENSOR_KEYS)
    /\ MetricValue("total_count") = Len(stationsData)

C30_Witness ==
  /\ InCycle /\ io.metrics = "ok"
  /\ Len(stationsData) = 2
  /\ MetricValue("total_count") = 2
  /\ MetricValue("healthy_count") = 1
  /\ MetricValue("offline_count") = 1
  /\ MetricValue("wind") = 2
  /\ MetricValue("total_sensor_failure_count") = 3

\* C31: while a station stays online and a sensor stays failing on its device
\* over consecutive cycles, the cache reads and writes succeeding, at most one
\* alert naming that sensor is sent, also when the diagnostics fetch of the
\* station fails in some of the cycles in between.
C31_OneAlertPerStreak ==
  \A s \in WatchLabels : hist.streak[s].on => hist.streak[s].sent <= 1

\* the stored entry of the watched station, between two cycles
WatchedEntry == store[USERS[1].name]["401"]

\* C32: with alerts enabled and every external call succeeding, whenever the
\* stored snapshot records sensor s as failing on an online station, an alert
\* naming s (a sensor-failure alert or an offline alert listing s) has been
\* sent since s entered the snapshot's failure set; so a sensor that starts
\* failing while the station is still offline is announced by the time the
\* station is recorded online again.
C32_AnnouncedSinceEntered ==
  (pc = "idle" /\ hist.watch /\ hist.clean /\ ~WatchedEntry.offline) =>
    \A s \in WatchLabels \cap SnapFailures(WatchedEntry) : hist.entered[s].how = "alerted"

\* the sensors recorded without an alert are those that started failing while
\* the station was still offline (branch E), and no others
C32_QuietOnlyFromStillOffline ==
  (pc = "idle" /\ hist.watch /\ hist.clean) =>
    \A s \in WatchLabels :
      hist.entered[s].how = "quiet" => hist.entered[s].via = "E"

\* C33: the snapshot records a transition whether or not its alert was
\* delivered: a cycle one of whose posts failed still stores the updated entry
\* of the station, and the next cycle that reads it and finds the station in
\* the same state repeats none of the failed posts; with the same diagnostics
\* too it posts nothing at all.
C33_FailedAlertNotRetried ==
  (hist.watch /\ InCycle /\ Len(seen) = 1) =>
    /\ (io.save = "ok" /\ \E k \in 1..Len(alerts) : ~alerts[k].ok) =>
         /\ store[USERS[ui].name][seen[1].id] = newCache[seen[1].id]
         /\ IF seen[1].branch = "B" THEN newCache[seen[1].id].shape = "absent"
            ELSE /\ newCache[seen[1].id].offline = (seen[1].state # 1)
                 /\ SnapFailures(newCache[seen[1].id]) = FailSet(seen[1].statuses)
    /\ (io.load = "ok" /\ hist.prev.set /\ seen[1].state = hist.prev.state) =>
         /\ \A k \in 1..Len(alerts) :
              Post(alerts[k].kind, alerts[k].user, alerts[k].id, alerts[k].sensors)
                \notin hist.prev.failed
         /\ (hist.prev.failed # {} /\ seen[1].statuses = hist.prev.statuses) => alerts = <<>>

C33_Witness ==
  /\ hist.watch /\ InCycle /\ Len(seen) = 1 /\ io.load = "ok" /\ io.save = "ok"
  /\ hist.prev.set /\ seen[1].state = hist.prev.state /\ seen[1].state # 1
  /\ seen[1].statuses = hist.prev.statuses
  /\ \E p \in hist.prev.failed : p.kind = "offline" /\ p.sensors = <<"wind", "precip">>
  /\ alerts = <<>>
  /\ store[USERS[ui].name][seen[1].id].offline

\* C34: at the end of a cycle whose station list was fetched (station ids
\* distinct), the offline flag of the new snapshot entry of every listed
\* station (false for an absent entry) is (state # 1), and the value processUser
\* returns is the number of listed stations with state # 1, which is the number
\* of listed stations whose new entry is offline.
C34_OfflineFlagsAndReturn ==
  (InCycle /\ io.list = "ok" /\ pc = "return") =>
    /\ Len(seen) = Len(stationsData)
    /\ \A k \in 1..Len(stationsData) :
         /\ seen[k].id = stationsData[k].station_id
         /\ (newCache[stationsData[k].station_id].shape \in {"flat", "nested"}
              /\ newCache[stationsData[k].station_id].offline)
              = (stationsData[k].state # 1)
    /\ ret = Cardinality({ k \in 1..Len(stationsData) : stationsData[k].state # 1 })
    /\ ret = Cardinality({ k \in 1..Len(stationsData) :
                             newCache[stationsData[k].station_id].offline })

C34_Witness ==
  /\ InCycle /\ io.list = "ok" /\ pc = "return"
  /\ Len(stationsData) = 2
  /\ stationsData[1].state = 1 /\ stationsData[2].state # 1
  /\ FailSet(seen[1].statuses) # {}
  /\ ret = 1
  /\ newCache["202"].offline /\ ~newCache["201"].offline

\* C35: a cycle whose station list fetch fails leaves everything of the account
\* as it was: the cache is neither read nor written, no station is evaluated,
\* no alert is posted and no metrics are sent for the account in that cycle.
C35_FailedListTouchesNothing ==
  /\ [](
         (InCycle /\ io.list = "failed") =>
           /\ io.load = "none" /\ io.save = "none" /\ io.metrics = "none"
           /\ cache = EmptyCache /\ newCache = EmptyCache
           /\ seen = <<>> /\ alerts = <<>> /\ metrics = <<>>
           /\ healthyCount = 0 /\ offlineCount = 0 /\ sensorFailureCounts = ZeroCounts)
  /\ [][(InCycle /\ (io.list = "failed" \/ io'.list = "failed"))
          => (store' = store /\ present' = present /\ last' = last)]_vars

C35_Witness ==
  /\ ui = 2 /\ pc = "return" /\ io.list = "failed"
  /\ Len(runlog) = 1 /\ runlog[1].saved /\ runlog[1].ret > 0
  /\ store[USERS[2].name] = EmptyCache
  /\ USERS[2].name \notin present

\* the station ids the fetched list does not hold
Unlisted == { id \in StationIds : \A k \in 1..Len(stationsData) : stationsData[k].station_id # id }

\* C36 as stated: the entries of the stations that are not in the station list
\* are in the stored object after the cache write as they were before it; a
\* cycle never removes the entry of a station it does not list.
C36_AsStated ==
  [][(pc = "loop" /\ pc' = "metrics" /\ io'.save = "ok")
       => \A id \in Unlisted : store'[USERS[ui].name][id] = store[USERS[ui].name][id]]_vars

\* C36 amended: the new image holds, for every station that is not in the
\* station list, the entry of the map the cycle read, and a successful write
\* stores it: after a successful read the stored entries of the unlisted
\* stations are unchanged, after a failed read (the map is empty) they are
\* removed.
C36_UnlistedAsRead ==
  /\ [](
         (InCycle /\ io.list = "ok" /\ io.load # "none") =>
           \A id \in Unlisted : newCache[id] = cache[id])
  /\ [][(pc = "loop" /\ pc' = "metrics" /\ io'.save = "ok") =>
          \A id \in Unlisted :
            store'[USERS[ui].name][id] =
              IF io.load = "ok" THEN store[USERS[ui].name][id] ELSE Absent]_vars

C36_Witness ==
  /\ InCycle /\ pc = "metrics" /\ io.load = "ok" /\ io.save = "ok"
  /\ stationsData = <<>>
  /\ store[USERS[ui].name]["101"].shape = "nested"
  /\ store[USERS[ui].name]["101"].offline
  /\ SnapFailures(store[USERS[ui].name]["101"]) = {"wind", "precip"}

\* C37: a cycle that finds a station online, recorded online with sensor s
\* failing, and s not failing any more removes s from the snapshot without an
\* alert naming it; when s fails again on the station, online, in a later cycle
\* (no cycle having recorded it in between), it is announced again by a
\* sensor-failure alert.
C37_ClearedThenAnnouncedAgain ==
  (hist.watch /\ InCycle /\ Len(seen) = 1 /\ seen[1].state = 1) =>
    \A s \in WatchLabels :
      /\ (/\ io.load = "ok"
          /\ cache[seen[1].id].shape \in {"flat", "nested"} /\ ~cache[seen[1].id].offline
          /\ s \in SnapFailures(cache[seen[1].id])
          /\ s \notin FailSet(seen[1].statuses))
           => /\ s \notin SnapFailures(newCache[seen[1].id])
              /\ \A k \in 1..Len(alerts) : ~Includes(alerts[k].sensors, s)
      /\ (USERS[ui].alertsOn /\ hist.cleared[s] /\ s \in FailSet(seen[1].statuses)) =>
           \E k \in 1..Len(alerts) :
             alerts[k].kind = "sensor" /\ Includes(alerts[k].sensors, s)

C37_Witness ==
  /\ hist.watch /\ InCycle /\ Len(seen) = 1 /\ seen[1].state = 1
  /\ io.load = "ok"
  /\ hist.cleared["precip"] /\ hist.entered["precip"].how = "out"
  /\ FailSet(seen[1].statuses) = {"precip"}
  /\ Len(alerts) = 1 /\ alerts[1].sensors = <<"precip">>

\* the stations of the cycle that are online with a failing sensor
OnlineFailing == { k \in 1..Len(seen) : seen[k].state = 1 /\ FailSet(seen[k].statuses) # {} }

\* C38: in every cycle healthy count + offline count <= total station count,
\* healthy counting the stations online with no failing sensor and offline
\* those with state # 1; they are equal exactly when no online station has a
\* failing sensor.
C38_HealthyPlusOfflineAtMostTotal ==
  /\ (InCycle /\ io.list = "ok") =>
       /\ healthyCount = Cardinality({ k \in 1..Len(seen) :
                                        seen[k].state = 1 /\ FailSet(seen[k].statuses) = {} })
       /\ offlineCount = Cardinality({ k \in 1..Len(seen) : seen[k].state # 1 })
       /\ healthyCount + offlineCount <= Len(stationsData)
  /\ (InCycle /\ io.metrics = "ok") =>
       /\ MetricValue("healthy_count") + MetricValue("offline_count") <= MetricValue("total_count")
       /\ (MetricValue("healthy_count") + MetricValue("offline_count") = MetricValue("total_count"))
            <=> (OnlineFailing = {})

C38_Witness ==
  /\ InCycle /\ io.metrics = "ok"
  /\ Len(seen) = 2 /\ OnlineFailing = {1} /\ seen[2].state # 1
  /\ MetricValue("healthy_count") = 0
  /\ MetricValue("offline_count") = 1
  /\ MetricValue("total_count") = 2

\* C39: every external call returning or failing, a run over the configured
\* accounts and their station lists terminates; the accounts are processed one
\* after another in configuration order, the listed stations of a cycle once
\* each in list order, and a cycle does at most one list fetch, one cache read,
\* one diagnostics fetch per station, one cache write and one metrics delivery.
C39_RunTerminates ==
  /\ [](pc # "idle" => <>(pc = "idle"))
  /\ [](
         /\ \A k \in 1..Len(runlog) : runlog[k].name = USERS[k].name
         /\ (pc = "idle" /\ runlog # <<>> /\ ~runlog[Len(runlog)].threw)
              => Len(runlog) = Len(USERS)
         /\ InCycle => Len(runlog) = ui - 1
         /\ (InCycle /\ io.list = "ok") =>
              /\ Len(seen) <= Len(stationsData)
              /\ \A k \in 1..Len(seen) : seen[k].id = stationsData[k].station_id
              /\ pc = "loop" => si = Len(seen) + 1)
  /\ [][/\ io'.list # io.list => (io.list = "none" \/ io' = NoIo)
        /\ io'.load # io.load => (io.load = "none" \/ io' = NoIo)
        /\ io'.save # io.save => (io.save = "none" \/ io' = NoIo)
        /\ io'.metrics # io.metrics => (io.metrics = "none" \/ io' = NoIo)
        /\ seen' # seen => (seen' = <<>> \/ Len(seen') = Len(seen) + 1)]_vars

C39_Witness ==
  /\ pc = "idle" /\ Len(runlog) = 2
  /\ runlog[1].name = "CPI" /\ runlog[1].list = "ok" /\ runlog[1].done = 2 /\ runlog[1].saved
  /\ runlog[2].name = "MOSS" /\ runlog[2].done = 1 /\ runlog[2].saved
====
